---- MODULE Spec2Model ----
(***************************************************************************)
(* A model of the Reachy2 control scripts: the ReachyController session    *)
(* and motion operations of main.py, the scripts that drive it, and the    *)
(* AudioManager operations of audio.py.                                    *)
(*                                                                         *)
(* Units.  Joint positions are integers in milliradians and durations are  *)
(* integers in tenths of a second.  A limit of the table is rounded        *)
(* towards zero, so that for an integer position x the comparison with the *)
(* rounded limit has the outcome of the float comparison of x/1000 with    *)
(* the limit of the source.                                                *)
(***************************************************************************)
EXTENDS Integers, Sequences, FiniteSets, TLC

VARIABLES
    jointLimits,  \* the module-level dict JOINT_LIMITS
    reachy,       \* ReachyController.reachy: 0 is None, n > 0 the n-th SDK handle
    connected,    \* ReachyController.connected
    created,      \* SDK side: the handles ReachySDK(...) has constructed
    closed,       \* SDK side: the handles whose disconnect() was called
    robot,        \* SDK side: the joints of every part the robot has
    goal,         \* SDK side: the goal_position last written to each joint
    call,         \* the last controller operation: its arguments and result
    trace,        \* the SDK calls and the sleeps of that operation, in order
    power,        \* SDK side: the parts that are turned on
    moves,        \* number of validation and motion operations invoked so far
    script,       \* the script that drives the controller ("-": a free caller)
    pc,           \* the position of that script
    files,        \* SDK side: the audio files in the robot's storage
    playing,      \* SDK side: the file being played, as a set of at most one
    localFiles,   \* the files downloaded to the local disk
    acall,        \* the last audio operation, or SDK event: arguments and result
    atrace,       \* the SDK calls and the sleeps of that operation, in order
    apc,          \* "waiting" and "sleeping" while play_audio_file waits for completion
    gzScene,      \* GazeboSceneManager.current_scene: its name, or "None"
    gzSpawned,    \* GazeboSceneManager.spawned_objects
    gzWorld,      \* simulator side: the entities the manager's scripts spawned
    gzCall,       \* the last GazeboSceneManager operation and its docker calls
    rvScene,      \* RVizSceneManager.current_scene: its name, or "None"
    rvMarkers,    \* RVizMarkerPublisher.markers
    rvMarkerId,   \* RVizMarkerPublisher.marker_id
    rvHasRos,     \* RVizMarkerPublisher.has_ros
    rvCall,       \* the last RVizSceneManager operation
    mime,         \* the last MimePerformer performance and its SDK calls
    mujoco,       \* the run of test_mujoco_connection
    demo          \* the last handler of the interactive demo, or self-test of the audio

vars == <<jointLimits, reachy, connected, created, closed, robot, goal,
          power, call, trace, moves, script, pc,
          files, playing, localFiles, acall, atrace, apc,
          gzScene, gzSpawned, gzWorld, gzCall,
          rvScene, rvMarkers, rvMarkerId, rvHasRos, rvCall, mime, mujoco, demo>>

audioVars == <<files, playing, localFiles, acall, atrace, apc>>

scriptVars == <<script, pc>>

gazeboVars == <<gzScene, gzSpawned, gzWorld, gzCall>>

rvizVars == <<rvScene, rvMarkers, rvMarkerId, rvHasRos, rvCall>>

extVars == <<gazeboVars, rvizVars, mime, mujoco, demo>>

ctlVars == <<jointLimits, reachy, connected, created, closed, robot, goal,
             power, call, trace, moves>>

----------------------------------------------------------------------------
(* Bounds of the model *)

MaxHandles == 2
MaxMoves == 2
MaxFailAt == 2

----------------------------------------------------------------------------
(* main.py: the joint-limit table *)

PI_MILLI == 3141

ARM_ORDER == <<"shoulder.pitch", "shoulder.roll", "elbow.yaw", "elbow.pitch",
               "wrist.roll", "wrist.pitch", "wrist.yaw", "gripper">>

HEAD_ORDER == <<"neck.roll", "neck.pitch", "neck.yaw", "l_antenna", "r_antenna">>

JOINT_LIMITS ==
    [ r_arm |->
        ( "shoulder.pitch" :> <<-PI_MILLI, PI_MILLI \div 2>> @@
          "shoulder.roll"  :> <<-(PI_MILLI \div 2), PI_MILLI \div 2>> @@
          "elbow.yaw"      :> <<-PI_MILLI, PI_MILLI>> @@
          "elbow.pitch"    :> <<-PI_MILLI, 0>> @@
          "wrist.roll"     :> <<-PI_MILLI, PI_MILLI>> @@
          "wrist.pitch"    :> <<-(PI_MILLI \div 2), PI_MILLI \div 2>> @@
          "wrist.yaw"      :> <<-PI_MILLI, PI_MILLI>> @@
          "gripper"        :> <<0, PI_MILLI \div 2>> ),
      l_arm |->
        ( "shoulder.pitch" :> <<-PI_MILLI, PI_MILLI \div 2>> @@
          "shoulder.roll"  :> <<-(PI_MILLI \div 2), PI_MILLI \div 2>> @@
          "elbow.yaw"      :> <<-PI_MILLI, PI_MILLI>> @@
          "elbow.pitch"    :> <<0, PI_MILLI>> @@
          "wrist.roll"     :> <<-PI_MILLI, PI_MILLI>> @@
          "wrist.pitch"    :> <<-(PI_MILLI \div 2), PI_MILLI \div 2>> @@
          "wrist.yaw"      :> <<-PI_MILLI, PI_MILLI>> @@
          "gripper"        :> <<0, PI_MILLI \div 2>> ),
      head |->
        ( "neck.roll"  :> <<-(PI_MILLI \div 4), PI_MILLI \div 4>> @@
          "neck.pitch" :> <<-(PI_MILLI \div 4), PI_MILLI \div 4>> @@
          "neck.yaw"   :> <<-(PI_MILLI \div 2), PI_MILLI \div 2>> @@
          "l_antenna"  :> <<0, PI_MILLI \div 2>> @@
          "r_antenna"  :> <<0, PI_MILLI \div 2>> ) ]

(* validate_joint_position with the bounds excluded *)
validate_exclusive(limits, part, joint_name, position) ==
    IF part \notin DOMAIN limits THEN TRUE
    ELSE IF joint_name \notin DOMAIN limits[part] THEN TRUE
    ELSE LET min_pos == limits[part][joint_name][1]
             max_pos == limits[part][joint_name][2]
         IN  IF position <= min_pos \/ position >= max_pos THEN FALSE ELSE TRUE

(* validate_joint_position refusing what the table does not list *)
validate_unlisted_refused(limits, part, joint_name, position) ==
    IF part \notin DOMAIN limits THEN FALSE
    ELSE IF joint_name \notin DOMAIN limits[part] THEN FALSE
    ELSE LET min_pos == limits[part][joint_name][1]
             max_pos == limits[part][joint_name][2]
         IN  IF position < min_pos \/ position > max_pos THEN FALSE ELSE TRUE

(* validate_joint_position, on the table it reads *)
validate_joint_position(limits, part, joint_name, position) ==
    IF part \notin DOMAIN limits THEN TRUE
    ELSE IF joint_name \notin DOMAIN limits[part] THEN TRUE
    ELSE LET min_pos == limits[part][joint_name][1]
             max_pos == limits[part][joint_name][2]
         IN  IF position < min_pos \/ position > max_pos THEN FALSE ELSE TRUE

----------------------------------------------------------------------------
(* The robot behind the SDK handle *)

PartNames == {"r_arm", "l_arm", "head", "mobile_base"}

JOINT_ORDER == ARM_ORDER \o HEAD_ORDER \o <<"wheel">>

(* A robot with both arms, a head and a mobile base, and one without l_arm *)
FullRobot ==
    [p \in PartNames |->
        IF p \in DOMAIN JOINT_LIMITS THEN DOMAIN JOINT_LIMITS[p] ELSE {"wheel"}]

OneArmRobot == [p \in {"r_arm", "head"} |-> DOMAIN JOINT_LIMITS[p]]

RobotConfigs == {FullRobot, OneArmRobot}

(* hasattr(self.reachy, part) / getattr(self.reachy, part, None) is not None *)
HasPart(part) == part \in DOMAIN robot

(* part.joints.items(), in the order the SDK lists the joints *)
JointsOf(part) == SelectSeq(JOINT_ORDER, LAMBDA j : j \in robot[part])

----------------------------------------------------------------------------
(* What an operation leaves behind: its record and its trace of events *)

Ev(kind, part, joint, args, raised) ==
    [kind |-> kind, part |-> part, joint |-> joint, args |-> args, raised |-> raised]

(* An SDK call, before it is known to raise *)
SdkCall(kind, part, joint, args) == Ev(kind, part, joint, args, FALSE)

(* time.sleep(d) *)
Sleep(d) == Ev("sleep", "-", "-", <<d>>, FALSE)

(* joint.goal_position = pos: the SDK is handed the position and nothing else *)
SetGoal(part, joint, pos, raised) == Ev("goal_position", part, joint, <<pos>>, raised)

Call(op, part, joint, position, duration, result) ==
    [op |-> op, part |-> part, joint |-> joint, position |-> position,
     duration |-> duration, result |-> result]

NoCall == Call("-", "-", "-", 0, 0, "-")

(* The SDK calls of a sequence of steps: its events that are not sleeps *)
SdkCalls(steps) == {i \in 1..Len(steps) : steps[i].kind # "sleep"}

(* The events of a sequence of steps when its failAt-th SDK call raises (the  *)
(* exception ends the sequence) and all of them when failAt is 0              *)
TraceOf(steps, failAt) ==
    IF failAt = 0 THEN steps
    ELSE LET i == CHOOSE n \in SdkCalls(steps) :
                      Cardinality({m \in SdkCalls(steps) : m <= n}) = failAt
         IN  SubSeq(steps, 1, i - 1) \o <<[steps[i] EXCEPT !.raised = TRUE]>>

(* The SDK calls of a trace that raised *)
Raised(tr) == {i \in 1..Len(tr) : tr[i].raised}

(* The goal positions after the goal_position writes of a trace *)
ApplyGoals(g, tr) ==
    LET idx == {i \in 1..Len(tr) : tr[i].kind = "goal_position" /\ ~tr[i].raised}
        keys == {<<tr[i].part, tr[i].joint>> : i \in idx}
        last(k) == CHOOSE i \in idx :
                      /\ <<tr[i].part, tr[i].joint>> = k
                      /\ \A m \in idx : <<tr[m].part, tr[m].joint>> = k => m <= i
    IN  [k \in DOMAIN g \cup keys |-> IF k \in keys THEN tr[last(k)].args[1] ELSE g[k]]

(* The parts that are on after the turn_on and turn_off_smoothly calls of a trace *)
RECURSIVE ApplyPower(_, _)
ApplyPower(pw, tr) ==
    IF tr = <<>> THEN pw
    ELSE LET e == Head(tr)
             next == IF e.raised THEN pw
                     ELSE IF e.kind = "turn_on" /\ e.part = "reachy" THEN DOMAIN robot
                     ELSE IF e.kind = "turn_on" THEN pw \cup {e.part}
                     ELSE IF e.kind = "turn_off_smoothly" THEN {}
                     ELSE pw
         IN  ApplyPower(next, Tail(tr))

(* if not self.connected or not self.reachy *)
NotConnected == ~connected \/ reachy = 0

----------------------------------------------------------------------------
(* main.py: ReachyController, the session *)

(* connect() with the reachability check outside of any try *)
connect_result_unguarded(ctorOk, infoOk) ==
    IF ~ctorOk THEN "False" ELSE IF infoOk THEN "True" ELSE "raised"

(* The value connect() returns *)
connect_result(ctorOk, infoOk) == IF ctorOk /\ infoOk THEN "True" ELSE "False"

(* self.connected after connect() *)
connect_connected(ctorOk, infoOk) ==
    IF ~ctorOk THEN FALSE ELSE IF infoOk THEN TRUE ELSE connected

Connect(ctorOk, infoOk) ==
    /\ ctorOk => Cardinality(created) < MaxHandles
    /\ ~ctorOk => infoOk
    /\ LET h == Cardinality(created) + 1
       IN  /\ created' = IF ctorOk THEN created \cup {h} ELSE created
           /\ reachy' = IF ctorOk THEN h ELSE reachy
    /\ connected' = connect_connected(ctorOk, infoOk)
    /\ call' = Call("connect", "-", "-", 0, 0, connect_result(ctorOk, infoOk))
    /\ trace' = IF ~ctorOk THEN <<Ev("ReachySDK", "-", "-", <<>>, TRUE)>>
                ELSE <<Ev("ReachySDK", "-", "-", <<>>, FALSE), Sleep(20),
                       Ev("info", "-", "-", <<>>, ~infoOk)>>
    /\ UNCHANGED <<jointLimits, closed, robot, goal, power, moves>>

Disconnect ==
    /\ closed' = IF reachy # 0 /\ connected THEN closed \cup {reachy} ELSE closed
    /\ connected' = IF reachy # 0 /\ connected THEN FALSE ELSE connected
    /\ call' = Call("disconnect", "-", "-", 0, 0, "None")
    /\ trace' = IF reachy # 0 /\ connected
                THEN <<Ev("disconnect", "-", "-", <<>>, FALSE)>> ELSE <<>>
    /\ UNCHANGED <<jointLimits, reachy, created, robot, goal, power, moves>>

GetRobotInfo ==
    /\ call' = Call("get_robot_info", "-", "-", 0, 0,
                    IF NotConnected THEN "error" ELSE "info")
    /\ trace' = <<>>
    /\ UNCHANGED <<jointLimits, reachy, connected, created, closed, robot, goal,
                   power, moves>>

RECURSIVE PresentPositions(_, _)
PresentPositions(part, joints) ==
    IF joints = <<>> THEN <<>>
    ELSE <<SdkCall("present_position", part, Head(joints), <<>>)>>
         \o PresentPositions(part, Tail(joints))

(* The reads of one part; an exception ends them and leaves an error entry *)
ReadPart(part, badPart) ==
    IF ~HasPart(part) THEN <<>>
    ELSE TraceOf(PresentPositions(part, JointsOf(part)), IF part = badPart THEN 1 ELSE 0)

(* read_joint_positions; badPart is the part whose reads raise ("-": none) *)
ReadJointPositions(badPart) ==
    /\ badPart # "-" => ~NotConnected /\ HasPart(badPart) /\ badPart \in DOMAIN JOINT_LIMITS
    /\ call' = Call("read_joint_positions", badPart, "-", 0, 0,
                    IF NotConnected THEN "error" ELSE "positions")
    /\ trace' = IF NotConnected THEN <<>>
                ELSE ReadPart("r_arm", badPart) \o ReadPart("l_arm", badPart)
                     \o ReadPart("head", badPart)
    /\ UNCHANGED <<jointLimits, reachy, connected, created, closed, robot, goal,
                   power, moves>>

----------------------------------------------------------------------------
(* main.py: ReachyController, validation and motion *)

(* validate_joint_position widening the table to the position it is given *)
ValidateJointPositionWidening(part, joint_name, position) ==
    /\ call' = Call("validate_joint_position", part, joint_name, position, 0,
                    IF validate_joint_position(jointLimits, part, joint_name, position)
                    THEN "True" ELSE "False")
    /\ trace' = <<>>
    /\ moves < MaxMoves
    /\ moves' = moves + 1
    /\ jointLimits' =
          IF part \in DOMAIN jointLimits /\ joint_name \in DOMAIN jointLimits[part]
          THEN LET lim == jointLimits[part][joint_name]
               IN  [jointLimits EXCEPT ![part][joint_name] =
                       <<IF position < lim[1] THEN position ELSE lim[1],
                         IF position > lim[2] THEN position ELSE lim[2]>>]
          ELSE jointLimits
    /\ UNCHANGED <<reachy, connected, created, closed, robot, goal, power>>

ValidateJointPosition(part, joint_name, position) ==
    /\ call' = Call("validate_joint_position", part, joint_name, position, 0,
                    IF validate_joint_position(jointLimits, part, joint_name, position)
                    THEN "True" ELSE "False")
    /\ trace' = <<>>
    /\ moves < MaxMoves
    /\ moves' = moves + 1
    /\ UNCHANGED <<jointLimits, reachy, connected, created, closed, robot, goal, power>>

(* move_joint without its guard *)
MoveJointUnguarded(part, joint_name, position) == TRUE

(* The guard of move_joint: if not self.validate_joint_position(...): return False *)
MoveJointPasses(part, joint_name, position) ==
    validate_joint_position(jointLimits, part, joint_name, position)

(* What move_joint hands to the SDK and the sleep that follows it *)
MoveJointSteps(part, joint_name, position, duration) ==
    <<SetGoal(part, joint_name, position, FALSE), Sleep(duration)>>

(* A motion operation: its steps are run when it gets as far as the SDK *)
Motion(op, part, joint_name, position, duration, reaches, steps, failAt) ==
    /\ moves < MaxMoves
    /\ moves' = moves + 1
    /\ failAt \in 0..(IF reaches THEN Cardinality(SdkCalls(steps)) ELSE 0)
    /\ trace' = IF reaches THEN TraceOf(steps, failAt) ELSE <<>>
    /\ goal' = ApplyGoals(goal, trace')
    /\ power' = ApplyPower(power, trace')
    /\ call' = Call(op, part, joint_name, position, duration,
                    IF reaches /\ failAt = 0 THEN "True" ELSE "False")
    /\ UNCHANGED <<jointLimits, reachy, connected, created, closed, robot>>

MoveJoint(part, joint_name, position, duration, failAt) ==
    Motion("move_joint", part, joint_name, position, duration,
           /\ ~NotConnected
           /\ MoveJointPasses(part, joint_name, position)
           /\ HasPart(part)
           /\ joint_name \in robot[part],
           MoveJointSteps(part, joint_name, position, duration), failAt)

(* The wave sequence: joint, position, sleep *)
WAVE_MOVEMENTS ==
    << <<"shoulder.pitch", -500, 10>>, <<"elbow.pitch", -1200, 10>>,
       <<"wrist.yaw", 500, 5>>, <<"wrist.yaw", -500, 5>>, <<"wrist.yaw", 500, 5>>,
       <<"wrist.yaw", 0, 5>>, <<"elbow.pitch", 0, 10>>, <<"shoulder.pitch", 0, 10>> >>

RECURSIVE WaveSteps(_, _)
WaveSteps(arm, movements) ==
    IF movements = <<>> THEN <<>>
    ELSE LET m == Head(movements)
         IN  (IF m[1] \in robot[arm]
              THEN <<SetGoal(arm, m[1], m[2], FALSE), Sleep(m[3])>> ELSE <<>>)
             \o WaveSteps(arm, Tail(movements))

WaveHello(arm, failAt) ==
    Motion("wave_hello", arm, "-", 0, 0,
           ~NotConnected /\ HasPart(arm),
           IF HasPart(arm) THEN WaveSteps(arm, WAVE_MOVEMENTS) ELSE <<>>, failAt)

RECURSIVE NeutralWrites(_, _)
NeutralWrites(part, joints) ==
    IF joints = <<>> THEN <<>>
    ELSE <<SetGoal(part, Head(joints), 0, FALSE)>> \o NeutralWrites(part, Tail(joints))

NeutralPart(part) == IF HasPart(part) THEN NeutralWrites(part, JointsOf(part)) ELSE <<>>

MoveToNeutralPosition(duration, failAt) ==
    Motion("move_to_neutral_position", "-", "-", 0, duration,
           ~NotConnected,
           NeutralPart("r_arm") \o NeutralPart("l_arm") \o NeutralPart("head")
               \o <<Sleep(duration)>>, failAt)

(* duration_map.get(speed, 2.0) *)
IntroDuration(speed) ==
    IF speed = "slow" THEN 30 ELSE IF speed = "fast" THEN 10 ELSE 20

(* The intro sequence turning the full robot on before the head looks down *)
IntroStepsOnFirst(speed) ==
    LET d == IntroDuration(speed)
    IN  << SdkCall("turn_on", "head", "-", <<>>), Sleep(10),
           SdkCall("turn_on", "reachy", "-", <<>>), Sleep(10),
           SdkCall("look_at", "head", "-", <<300, 0, -400, d>>), Sleep(5),
           SdkCall("look_at", "head", "-", <<500, 0, 100, d>>),
           SdkCall("goto", "head", "l_antenna", <<10, 8>>),
           SdkCall("goto", "head", "r_antenna", <<-10, 8>>), Sleep(10),
           SdkCall("goto", "head", "l_antenna", <<0, 8>>),
           SdkCall("goto", "head", "r_antenna", <<0, 8>>), Sleep(10) >>

IntroSteps(speed) ==
    LET d == IntroDuration(speed)
    IN  << SdkCall("turn_on", "head", "-", <<>>), Sleep(10),
           SdkCall("look_at", "head", "-", <<300, 0, -400, d>>), Sleep(5),
           SdkCall("turn_on", "reachy", "-", <<>>), Sleep(10),
           SdkCall("look_at", "head", "-", <<500, 0, 100, d>>),
           SdkCall("goto", "head", "l_antenna", <<10, 8>>),
           SdkCall("goto", "head", "r_antenna", <<-10, 8>>), Sleep(10),
           SdkCall("goto", "head", "l_antenna", <<0, 8>>),
           SdkCall("goto", "head", "r_antenna", <<0, 8>>), Sleep(10) >>

PerformIntroSetup(speed, failAt) ==
    Motion("perform_intro_setup", speed, "-", 0, 0, ~NotConnected,
           IntroSteps(speed), failAt)

ResetSteps ==
    <<SdkCall("is_on", "head", "-", <<>>)>>
    \o (IF "head" \in power THEN <<>>
        ELSE <<SdkCall("turn_on", "head", "-", <<>>), Sleep(10)>>)
    \o <<SdkCall("look_at", "head", "-", <<300, 0, -400, 20>>),
         SdkCall("turn_off_smoothly", "reachy", "-", <<>>)>>

ResetToDownPosition(failAt) ==
    Motion("reset_to_down_position", "-", "-", 0, 0, ~NotConnected, ResetSteps, failAt)

----------------------------------------------------------------------------
(* audio.py: file names.  A name is a sequence of characters. *)

OGG == <<".", "o", "g", "g">>

MY_VOICE == <<"m", "y", "_", "v", "o", "i", "c", "e">> \o OGG

(* str.endswith *)
EndsWith(s, suffix) ==
    /\ Len(s) >= Len(suffix)
    /\ SubSeq(s, Len(s) - Len(suffix) + 1, Len(s)) = suffix

(* str.strip *)
RECURSIVE Strip(_)
Strip(s) ==
    IF s = <<>> THEN s
    ELSE IF Head(s) = " " THEN Strip(Tail(s))
    ELSE IF s[Len(s)] = " " THEN Strip(SubSeq(s, 1, Len(s) - 1))
    ELSE s

(* record_audio appending the extension to every name *)
RecordFileNameAlways(filename) == filename \o OGG

(* record_audio: if not filename.endswith('.ogg'): filename += '.ogg' *)
RecordFileName(filename) ==
    IF ~EndsWith(filename, OGG) THEN filename \o OGG ELSE filename

(* demo_audio_recording: the name it records under, from the text typed in *)
DemoFileName(typed) ==
    LET stripped == Strip(typed)
        filename == IF stripped = <<>> THEN MY_VOICE ELSE stripped
    IN  IF ~EndsWith(filename, OGG) THEN filename \o OGG ELSE filename

(* str.lower, on the characters of the model *)
Lower(s) ==
    [i \in 1..Len(s) |->
        IF s[i] = "O" THEN "o" ELSE IF s[i] = "G" THEN "g" ELSE s[i]]

(* os.path.splitext(path)[1]: from the last dot, unless only dots precede it *)
Extension(path) ==
    LET dots == {i \in 1..Len(path) : path[i] = "."}
        last == CHOOSE i \in dots : \A m \in dots : m <= i
    IN  IF dots = {} \/ \A i \in 1..(last - 1) : path[i] = "." THEN <<>>
        ELSE SubSeq(path, last, Len(path))

SUPPORTED_FORMATS == { <<".", "w", "a", "v">>, <<".", "m", "p", "3">>, OGG }

----------------------------------------------------------------------------
(* audio.py: AudioManager *)

AEv(kind, name, args, raised) ==
    [kind |-> kind, name |-> name, args |-> args, raised |-> raised]

ASleep(d) == AEv("sleep", <<>>, <<d>>, FALSE)

ACall(op, filename, flag, duration, result, listed) ==
    [op |-> op, filename |-> filename, flag |-> flag, duration |-> duration,
     result |-> result, listed |-> listed]

NoACall == ACall("-", <<>>, FALSE, 0, "-", {})

CtlStart ==
    /\ jointLimits = JOINT_LIMITS
    /\ reachy = 0
    /\ connected = FALSE
    /\ created = {}
    /\ closed = {}
    /\ robot \in RobotConfigs
    /\ goal = <<>>
    /\ power = {}
    /\ trace = <<>>
    /\ moves = 0

AudioStart ==
    /\ files = {}
    /\ playing = {}
    /\ localFiles = {}
    /\ atrace = <<>>
    /\ apc = "idle"

(* An operation of one of the scene managers, of the mime performer or of the *)
(* connection test: what it was given, what it returned, what it called      *)
XCall(op, arg, result, calls) ==
    [op |-> op, arg |-> arg, result |-> result, calls |-> calls]

NoXCall == XCall("-", "-", "-", <<>>)

(* GazeboSceneManager.__init__, with an empty simulator *)
GazeboStart ==
    /\ gzScene = "None"
    /\ gzSpawned = <<>>
    /\ gzWorld = {}
    /\ gzCall = NoXCall

(* RVizSceneManager.__init__ and RVizMarkerPublisher.__init__ *)
RvizStart(has_ros) ==
    /\ rvScene = "None"
    /\ rvMarkers = <<>>
    /\ rvMarkerId = 0
    /\ rvHasRos = has_ros
    /\ rvCall = NoXCall

(* No scene manager, mime performer or connection test is at work *)
ExtStart ==
    /\ GazeboStart
    /\ RvizStart(FALSE)
    /\ mime = NoXCall
    /\ mujoco = NoXCall
    /\ demo = NoXCall

(* list_audio_files: the list of the SDK, and [] when the SDK raises *)
ListAudioFiles(listOk) == IF listOk THEN files ELSE {}

GetAudioFiles(listOk) == AEv("get_audio_files", <<>>, <<>>, ~listOk)

(* The existence check without its test *)
OnRobotUnchecked(filename, available_files) == TRUE

(* if filename not in available_files: ... return False *)
OnRobot(filename, available_files) == filename \in available_files

Bool(b) == IF b THEN "True" ELSE "False"

PlayAudioFile(filename, wait_for_completion, listOk, sdkOk) ==
    LET available_files == ListAudioFiles(listOk)
        found == OnRobot(filename, available_files)
        started == found /\ sdkOk
    IN  /\ apc = "idle"
        /\ ~found => sdkOk
        /\ atrace' = <<GetAudioFiles(listOk)>>
                     \o (IF found THEN <<AEv("play_audio_file", filename, <<>>, ~sdkOk)>>
                         ELSE <<>>)
        /\ playing' = IF started THEN {filename} ELSE playing
        /\ apc' = IF started /\ wait_for_completion THEN "waiting" ELSE "idle"
        /\ acall' = ACall("play_audio_file", filename, wait_for_completion, 0,
                          IF started /\ wait_for_completion THEN "waiting"
                          ELSE Bool(started), available_files)
        /\ UNCHANGED <<files, localFiles>>

(* while True: time.sleep(0.5): the loop enters the sleep, whatever is      *)
(* playing or not                                                           *)
PlayWaitSleep ==
    /\ apc = "waiting"
    /\ apc' = "sleeping"
    /\ UNCHANGED <<files, localFiles, playing, acall, atrace>>

(* time.sleep(0.5) returns and the loop, whose condition is True, turns *)
PlayWaitWake ==
    /\ apc = "sleeping"
    /\ apc' = "waiting"
    /\ UNCHANGED <<files, localFiles, playing, acall, atrace>>

(* except KeyboardInterrupt: self.stop_playback(), then return True *)
PlayWaitInterrupt(sdkOk) ==
    /\ apc \in {"waiting", "sleeping"}
    /\ atrace' = Append(atrace, AEv("stop_playing", <<>>, <<>>, ~sdkOk))
    /\ playing' = IF sdkOk THEN {} ELSE playing
    /\ acall' = [acall EXCEPT !.result = "True"]
    /\ apc' = "idle"
    /\ UNCHANGED <<files, localFiles>>

(* The SDK comes to the end of the file it plays *)
PlaybackEnds ==
    /\ playing # {}
    /\ playing' = {}
    /\ acall' = IF apc # "idle" THEN acall
                ELSE ACall("playback_ends", <<>>, FALSE, 0, "-", {})
    /\ atrace' = IF apc # "idle" THEN atrace ELSE <<>>
    /\ UNCHANGED <<files, localFiles, apc>>

(* stop_playback without its except clause *)
StopPlaybackUncaught(sdkOk) ==
    /\ apc = "idle"
    /\ atrace' = <<AEv("stop_playing", <<>>, <<>>, ~sdkOk)>>
    /\ playing' = IF sdkOk THEN {} ELSE playing
    /\ acall' = ACall("stop_playback", <<>>, FALSE, 0,
                      IF sdkOk THEN "True" ELSE "raised", {})
    /\ UNCHANGED <<files, localFiles, apc>>

StopPlayback(sdkOk) ==
    /\ apc = "idle"
    /\ atrace' = <<AEv("stop_playing", <<>>, <<>>, ~sdkOk)>>
    /\ playing' = IF sdkOk THEN {} ELSE playing
    /\ acall' = ACall("stop_playback", <<>>, FALSE, 0, Bool(sdkOk), {})
    /\ UNCHANGED <<files, localFiles, apc>>

(* outcome: the SDK call "raises", or the recording is "saved" or "lost" *)
RecordAudio(filename, duration_secs, countdown, outcome, listOk) ==
    LET name == RecordFileName(filename)
        before == IF countdown /\ duration_secs > 3
                  THEN <<ASleep(10), ASleep(10), ASleep(10)>> ELSE <<>>
        stored == IF outcome = "saved" THEN files \cup {name} ELSE files
        listed == IF listOk THEN stored ELSE {}
    IN  /\ apc = "idle"
        /\ outcome = "raises" => listOk
        /\ files' = stored
        /\ atrace' = before
              \o <<AEv("record_audio", name, <<duration_secs>>, outcome = "raises")>>
              \o (IF outcome = "raises" THEN <<>>
                  ELSE <<ASleep(10 * (duration_secs + 1)), GetAudioFiles(listOk)>>)
        /\ acall' = ACall("record_audio", filename, countdown, duration_secs,
                          Bool(outcome # "raises" /\ name \in listed),
                          IF outcome = "raises" THEN {} ELSE listed)
        /\ UNCHANGED <<playing, localFiles, apc>>

(* outcome: the SDK call "raises", or the local file is "saved" or "lost" *)
DownloadAudioFile(filename, listOk, outcome) ==
    LET available_files == ListAudioFiles(listOk)
        found == OnRobot(filename, available_files)
    IN  /\ apc = "idle"
        /\ ~found => outcome = "saved"
        /\ atrace' = <<GetAudioFiles(listOk)>>
              \o (IF found
                  THEN <<AEv("download_audio_file", filename, <<>>, outcome = "raises")>>
                  ELSE <<>>)
        /\ localFiles' = IF found /\ outcome = "saved"
                         THEN localFiles \cup {filename} ELSE localFiles
        /\ acall' = ACall("download_audio_file", filename, FALSE, 0,
                          Bool(found /\ outcome = "saved"), available_files)
        /\ UNCHANGED <<files, playing, apc>>

(* yes: the answer to the confirmation starts with a y *)
RemoveAudioFile(filename, confirm, yes, listOk, sdkOk) ==
    LET available_files == ListAudioFiles(listOk)
        found == OnRobot(filename, available_files)
        goes == found /\ (confirm => yes)
    IN  /\ apc = "idle"
        /\ ~goes => sdkOk
        /\ ~(found /\ confirm) => yes
        /\ atrace' = <<GetAudioFiles(listOk)>>
              \o (IF goes THEN <<AEv("remove_audio_file", filename, <<>>, ~sdkOk)>>
                  ELSE <<>>)
        /\ files' = IF goes /\ sdkOk THEN files \ {filename} ELSE files
        /\ acall' = ACall("remove_audio_file", filename, confirm, 0,
                          Bool(goes /\ sdkOk), available_files)
        /\ UNCHANGED <<playing, localFiles, apc>>

(* exists: os.path.exists(local_path) *)
UploadAudioFile(local_path, exists, sdkOk) ==
    LET goes == exists /\ Lower(Extension(local_path)) \in SUPPORTED_FORMATS
    IN  /\ apc = "idle"
        /\ ~goes => sdkOk
        /\ atrace' = IF goes THEN <<AEv("upload_audio_file", local_path, <<>>, ~sdkOk)>>
                     ELSE <<>>
        /\ files' = IF goes /\ sdkOk THEN files \cup {local_path} ELSE files
        /\ acall' = ACall("upload_audio_file", local_path, exists, 0,
                          Bool(goes /\ sdkOk), {})
        /\ UNCHANGED <<playing, localFiles, apc>>

StopRecording(sdkOk) ==
    /\ apc = "idle"
    /\ atrace' = <<AEv("stop_recording", <<>>, <<>>, ~sdkOk)>>
    /\ acall' = ACall("stop_recording", <<>>, FALSE, 0, Bool(sdkOk), {})
    /\ UNCHANGED <<files, playing, localFiles, apc>>

(* list_audio_files called on its own; listed is the list it returns *)
ListFiles(listOk) ==
    /\ apc = "idle"
    /\ atrace' = <<GetAudioFiles(listOk)>>
    /\ acall' = ACall("list_audio_files", <<>>, FALSE, 0, "list", ListAudioFiles(listOk))
    /\ UNCHANGED <<files, playing, localFiles, apc>>

----------------------------------------------------------------------------
(* The controller driven by a free caller *)

(* The joints a caller addresses: listed ones, one the table does not list *)
(* and one the robot does not have                                          *)
MoveTargets == { <<"r_arm", "elbow.pitch">>, <<"l_arm", "elbow.pitch">>,
                 <<"head", "neck.pitch">>, <<"mobile_base", "wheel">>,
                 <<"head", "wheel">> }
MovePositions == {-1200, 0, 1571}
Durations == {5, 20}
NeutralDurations == {30}
Speeds == {"slow", "fast", "turbo"}
FailPoints == 0..MaxFailAt

Init ==
    /\ CtlStart
    /\ ExtStart
    /\ call = NoCall
    /\ script = "-"
    /\ pc = "-"
    /\ AudioStart
    /\ acall = NoACall

CallConnect ==
    /\ \E ctorOk, infoOk \in BOOLEAN : Connect(ctorOk, infoOk)
    /\ UNCHANGED <<scriptVars, audioVars, extVars>>

CallDisconnect == Disconnect /\ UNCHANGED <<scriptVars, audioVars, extVars>>

CallValidate ==
    /\ \E target \in MoveTargets, position \in MovePositions :
          ValidateJointPosition(target[1], target[2], position)
    /\ UNCHANGED <<scriptVars, audioVars, extVars>>

CallMoveJoint ==
    /\ \E target \in MoveTargets, position \in MovePositions,
          duration \in Durations, failAt \in FailPoints :
          MoveJoint(target[1], target[2], position, duration, failAt)
    /\ UNCHANGED <<scriptVars, audioVars, extVars>>

CallWaveHello ==
    /\ \E arm \in PartNames, failAt \in FailPoints : WaveHello(arm, failAt)
    /\ UNCHANGED <<scriptVars, audioVars, extVars>>

CallMoveToNeutral ==
    /\ \E duration \in NeutralDurations, failAt \in FailPoints :
          MoveToNeutralPosition(duration, failAt)
    /\ UNCHANGED <<scriptVars, audioVars, extVars>>

CallIntroSetup ==
    /\ \E speed \in Speeds, failAt \in FailPoints : PerformIntroSetup(speed, failAt)
    /\ UNCHANGED <<scriptVars, audioVars, extVars>>

CallReset ==
    /\ \E failAt \in FailPoints : ResetToDownPosition(failAt)
    /\ UNCHANGED <<scriptVars, audioVars, extVars>>

Next ==
    \/ CallConnect
    \/ CallDisconnect
    \/ CallValidate
    \/ CallMoveJoint
    \/ CallWaveHello
    \/ CallMoveToNeutral
    \/ CallIntroSetup
    \/ CallReset

Spec == Init /\ [][Next]_vars

----------------------------------------------------------------------------
(* validate_joint_position on its own, over every joint and the positions   *)
(* around every limit of the table                                           *)

ValidateParts == PartNames \cup {"torso"}

ValidateJoints == {JOINT_ORDER[i] : i \in 1..Len(JOINT_ORDER)} \cup {"unknown"}

LimitValues ==
    UNION { UNION { {JOINT_LIMITS[p][j][1], JOINT_LIMITS[p][j][2]} :
                    j \in DOMAIN JOINT_LIMITS[p] } : p \in DOMAIN JOINT_LIMITS }

ValidatePositions == {v + d : v \in LimitValues, d \in {-1, 0, 1}} \cup {-4000, 4000}

(* The arguments of the call to come are drawn at the start *)
InitValidate ==
    /\ CtlStart
    /\ ExtStart
    /\ \E part \in ValidateParts, joint_name \in ValidateJoints,
          position \in ValidatePositions :
          call = Call("-", part, joint_name, position, 0, "-")
    /\ script = "-"
    /\ pc = "-"
    /\ AudioStart
    /\ acall = NoACall

ValidateDrawn ==
    /\ call.op = "-"
    /\ ValidateJointPosition(call.part, call.joint, call.position)
    /\ UNCHANGED <<scriptVars, audioVars, extVars>>

SpecValidate == InitValidate /\ [][ValidateDrawn]_vars

----------------------------------------------------------------------------
(* The scripts that drive the controller: main.py, intro_setup.py and       *)
(* scene_demo.py.  Each connects inside a try whose finally disconnects.     *)

Scripts == {"main", "intro_setup", "scene_demo"}

InitScript ==
    /\ CtlStart
    /\ ExtStart
    /\ call = NoCall
    /\ script \in Scripts
    /\ pc = "start"
    /\ AudioStart
    /\ acall = NoACall

(* if not controller.connect(): return *)
ScriptConnect ==
    /\ pc = "start"
    /\ \E ctorOk, infoOk \in BOOLEAN : Connect(ctorOk, infoOk)
    /\ pc' = IF call'.result # "True" THEN "finally"
             ELSE IF script = "main" THEN "info" ELSE "body"
    /\ UNCHANGED <<script, audioVars, extVars>>

(* KeyboardInterrupt, or an exception of a print, between two calls *)
ScriptInterrupt ==
    /\ pc \in {"info", "positions", "wave", "neutral", "body"}
    /\ pc' = "finally"
    /\ UNCHANGED <<ctlVars, script, audioVars, extVars>>

MainInfo ==
    /\ pc = "info"
    /\ GetRobotInfo
    /\ pc' = "positions"
    /\ UNCHANGED <<script, audioVars, extVars>>

(* The print of a part's error entry with {position:.3f} raises *)
MainPositions ==
    /\ pc = "positions"
    /\ \E badPart \in {"-", "r_arm", "l_arm", "head"} : ReadJointPositions(badPart)
    /\ pc' = IF call'.part = "-" THEN "wave" ELSE "finally"
    /\ UNCHANGED <<script, audioVars, extVars>>

MainWave ==
    /\ pc = "wave"
    /\ \E failAt \in FailPoints : WaveHello("r_arm", failAt)
    /\ pc' = "neutral"
    /\ UNCHANGED <<script, audioVars, extVars>>

MainNeutral ==
    /\ pc = "neutral"
    /\ \E failAt \in FailPoints : MoveToNeutralPosition(30, failAt)
    /\ pc' = "finally"
    /\ UNCHANGED <<script, audioVars, extVars>>

(* intro_setup.py without --reset-only *)
IntroSetupIntro ==
    /\ pc = "body"
    /\ script = "intro_setup"
    /\ \E speed \in {"slow", "medium", "fast"}, failAt \in FailPoints :
          PerformIntroSetup(speed, failAt)
    /\ pc' = "finally"
    /\ UNCHANGED <<script, audioVars, extVars>>

(* intro_setup.py --reset-only *)
IntroSetupReset ==
    /\ pc = "body"
    /\ script = "intro_setup"
    /\ \E failAt \in FailPoints : ResetToDownPosition(failAt)
    /\ pc' = "finally"
    /\ UNCHANGED <<script, audioVars, extVars>>

(* scene_demo.py: the scenes are shown without a call of the controller *)
SceneDemoScenes ==
    /\ pc = "body"
    /\ script = "scene_demo"
    /\ pc' = "finally"
    /\ UNCHANGED <<ctlVars, script, audioVars, extVars>>

(* finally: controller.disconnect() *)
ScriptFinally ==
    /\ pc = "finally"
    /\ Disconnect
    /\ pc' = "exited"
    /\ UNCHANGED <<script, audioVars, extVars>>

NextScript ==
    \/ ScriptConnect
    \/ ScriptInterrupt
    \/ MainInfo
    \/ MainPositions
    \/ MainWave
    \/ MainNeutral
    \/ IntroSetupIntro
    \/ IntroSetupReset
    \/ SceneDemoScenes
    \/ ScriptFinally

SpecScript == InitScript /\ [][NextScript]_vars

----------------------------------------------------------------------------
(* interactive_demo.py: demo_audio_recording, which talks to the SDK itself. *)
(* saved: the SDK stores the recording; failAt: the SDK call that raises.     *)

DemoSteps(filename, duration, found, play_back, download) ==
    << GetAudioFiles(TRUE),
       AEv("record_audio", filename, <<duration>>, FALSE),
       ASleep(10 * (duration + 1)),
       GetAudioFiles(TRUE) >>
    \o (IF found /\ play_back
        THEN <<AEv("play_audio_file", filename, <<>>, FALSE), ASleep(20),
               AEv("stop_playing", <<>>, <<>>, FALSE)>>
        ELSE <<>>)
    \o (IF found /\ download
        THEN <<AEv("download_audio_file", filename, <<>>, FALSE)>> ELSE <<>>)

DemoAudioRecording(typed, duration, saved, play_back, download, failAt) ==
    LET filename == DemoFileName(typed)
        found == saved \/ filename \in files
        steps == DemoSteps(filename, duration, found, play_back, download)
        tr == TraceOf(steps, failAt)
        done(kind) == \E i \in 1..Len(tr) : tr[i].kind = kind /\ ~tr[i].raised
    IN  /\ apc = "idle"
        /\ failAt \in 0..Cardinality(SdkCalls(steps))
        /\ ~found => ~play_back /\ ~download
        /\ atrace' = tr
        /\ files' = IF done("record_audio") /\ saved THEN files \cup {filename} ELSE files
        /\ playing' = IF done("stop_playing") THEN {}
                      ELSE IF done("play_audio_file") THEN {filename} ELSE playing
        /\ localFiles' = IF done("download_audio_file")
                         THEN localFiles \cup {filename} ELSE localFiles
        /\ acall' = ACall("demo_audio_recording", typed, play_back, duration, "None", {})
        /\ UNCHANGED apc

----------------------------------------------------------------------------
(* The audio manager driven by a free caller *)

AudioNames == { <<"a">>, <<"b">> \o OGG }

PlayNames == AudioNames \cup {RecordFileName(n) : n \in AudioNames}

RecordDurations == {3, 5}

Outcomes == {"raises", "saved", "lost"}

InitAudio == Init /\ robot = FullRobot

AudioPlay ==
    /\ \E filename \in PlayNames, wait_for_completion, listOk, sdkOk \in BOOLEAN :
          PlayAudioFile(filename, wait_for_completion, listOk, sdkOk)
    /\ UNCHANGED <<ctlVars, scriptVars, extVars>>

AudioWaitSleep == PlayWaitSleep /\ UNCHANGED <<ctlVars, scriptVars, extVars>>

AudioWaitWake == PlayWaitWake /\ UNCHANGED <<ctlVars, scriptVars, extVars>>

AudioWaitInterrupt ==
    /\ \E sdkOk \in BOOLEAN : PlayWaitInterrupt(sdkOk)
    /\ UNCHANGED <<ctlVars, scriptVars, extVars>>

AudioPlaybackEnds == PlaybackEnds /\ UNCHANGED <<ctlVars, scriptVars, extVars>>

AudioStop ==
    /\ \E sdkOk \in BOOLEAN : StopPlayback(sdkOk)
    /\ UNCHANGED <<ctlVars, scriptVars, extVars>>

AudioRecord ==
    /\ \E filename \in AudioNames, duration_secs \in RecordDurations,
          countdown, listOk \in BOOLEAN, outcome \in Outcomes :
          RecordAudio(filename, duration_secs, countdown, outcome, listOk)
    /\ UNCHANGED <<ctlVars, scriptVars, extVars>>

AudioDownload ==
    /\ \E filename \in PlayNames, listOk \in BOOLEAN, outcome \in Outcomes :
          DownloadAudioFile(filename, listOk, outcome)
    /\ UNCHANGED <<ctlVars, scriptVars, extVars>>

AudioRemove ==
    /\ \E filename \in PlayNames, confirm, yes, listOk, sdkOk \in BOOLEAN :
          RemoveAudioFile(filename, confirm, yes, listOk, sdkOk)
    /\ UNCHANGED <<ctlVars, scriptVars, extVars>>

AudioUpload ==
    /\ \E local_path \in AudioNames, exists, sdkOk \in BOOLEAN :
          UploadAudioFile(local_path, exists, sdkOk)
    /\ UNCHANGED <<ctlVars, scriptVars, extVars>>

NextAudio ==
    \/ AudioPlay
    \/ AudioWaitSleep
    \/ AudioWaitWake
    \/ AudioWaitInterrupt
    \/ AudioPlaybackEnds
    \/ AudioStop
    \/ AudioRecord
    \/ AudioDownload
    \/ AudioRemove
    \/ AudioUpload

SpecAudio == InitAudio /\ [][NextAudio]_vars

(* The same with the scheduling the code has: the waiting loop always gets   *)
(* its next turn, and the SDK comes to the end of the file it plays.  The     *)
(* user owes no Ctrl+C.                                                      *)
SpecAudioFair ==
    /\ SpecAudio
    /\ WF_vars(AudioWaitSleep)
    /\ WF_vars(AudioWaitWake)
    /\ WF_vars(AudioPlaybackEnds)

----------------------------------------------------------------------------
(* The self-tests of the audio: AudioManager._menu_test_audio, and the       *)
(* scripts test_audio.py (test_audio_basic) and verify_audio_playback.py.    *)
(* demo holds the test at work: its name, the step it has come to, and the   *)
(* operations of the audio manager it has called, each with its result.     *)

AUDIO_TEST == <<"a", "u", "d", "i", "o", "_", "t", "e", "s", "t">>

TEST_RECORDING ==
    <<"t", "e", "s", "t", "_", "r", "e", "c", "o", "r", "d", "i", "n", "g">>

PLAYBACK_TEST == <<"p", "l", "a", "y", "b", "a", "c", "k", "_", "t", "e", "s", "t">>

SelfTests == {"_menu_test_audio", "test_audio_basic", "verify_audio_playback"}

(* The name each test hands to record_audio *)
TestFilename(test) ==
    IF test = "_menu_test_audio" THEN AUDIO_TEST
    ELSE IF test = "test_audio_basic" THEN TEST_RECORDING
    ELSE PLAYBACK_TEST

(* The name each test plays and removes: the literal name with ".ogg" *)
TestFile(test) == TestFilename(test) \o OGG

(* duration_secs of the recording: 3, 3 and 5 seconds *)
TestDuration(test) == IF test = "verify_audio_playback" THEN 5 ELSE 3

(* The two scripts build a controller and connect; the menu entry works on *)
(* the manager it belongs to                                               *)
TestConnects(test) == test # "_menu_test_audio"

TestStep(step, done) == [demo EXCEPT !.arg = step, !.calls = done]

TestCalled(op) == Append(demo.calls, <<op, acall'.result>>)

(* What follows a branch that calls nothing more of the recording: the     *)
(* file info of test_audio_basic, the finally of verify_audio_playback, the *)
(* return of the menu entry                                                *)
TestAfter(test) ==
    IF test = "test_audio_basic" THEN "info"
    ELSE IF test = "verify_audio_playback" THEN "finally"
    ELSE "returned"

(* What follows a playback that returned False: both branches that print   *)
(* "Playback test failed" call nothing; verify_audio_playback cleans up    *)
TestAfterFailedPlay(test) ==
    IF test = "verify_audio_playback" THEN "remove" ELSE TestAfter(test)

(* What follows a playback that returned True *)
TestAfterPlay(test) ==
    IF test = "verify_audio_playback" THEN "asked" ELSE "remove"

(* The test is launched, or chosen in the menu of the audio *)
SelfTestStart(test) ==
    /\ demo = NoXCall
    /\ demo' = XCall(test, IF TestConnects(test) THEN "connect" ELSE "record",
                     "-", <<>>)
    /\ UNCHANGED <<ctlVars, audioVars>>

(* if not controller.connect(): return *)
SelfTestConnect(ctorOk, infoOk) ==
    /\ demo.arg = "connect"
    /\ Connect(ctorOk, infoOk)
    /\ demo' = TestStep(IF call'.result # "True" THEN "finally"
                        ELSE IF demo.op = "test_audio_basic" THEN "list"
                        ELSE "record", demo.calls)
    /\ UNCHANGED audioVars

(* files = audio.list_audio_files() *)
SelfTestList(listOk) ==
    /\ demo.arg = "list"
    /\ ListFiles(listOk)
    /\ demo' = TestStep("record", demo.calls)
    /\ UNCHANGED ctlVars

(* if record_audio(test_filename, ...): ... else: "Recording test failed" *)
SelfTestRecord(outcome, listOk) ==
    /\ demo.arg = "record"
    /\ RecordAudio(TestFilename(demo.op), TestDuration(demo.op), TRUE, outcome, listOk)
    /\ demo' = TestStep(IF acall'.result = "True" THEN "play" ELSE TestAfter(demo.op),
                        TestCalled("record_audio"))
    /\ UNCHANGED ctlVars

(* if play_audio_file(test_filename + ".ogg"): ... else: ... *)
SelfTestPlay(listOk, sdkOk) ==
    /\ demo.arg = "play"
    /\ PlayAudioFile(TestFile(demo.op), FALSE, listOk, sdkOk)
    /\ demo' = TestStep(IF acall'.result = "True" THEN TestAfterPlay(demo.op)
                        ELSE TestAfterFailedPlay(demo.op),
                        TestCalled("play_audio_file"))
    /\ UNCHANGED ctlVars

(* heard_audio = input(...): a yes goes on to the cleanup, anything else to *)
(* the diagnostics, which list the files                                    *)
SelfTestHeard(heard, listOk) ==
    /\ demo.arg = "asked"
    /\ IF heard
       THEN /\ listOk
            /\ demo' = TestStep("remove", demo.calls)
            /\ UNCHANGED audioVars
       ELSE /\ ListFiles(listOk)
            /\ demo' = TestStep(IF TestFile(demo.op) \in acall'.listed
                                THEN "download" ELSE "remove", demo.calls)
    /\ UNCHANGED ctlVars

(* download_test = input(...); if it starts with y: download_audio_file *)
SelfTestDownload(yes, listOk, outcome) ==
    /\ demo.arg = "download"
    /\ IF yes
       THEN /\ DownloadAudioFile(TestFile(demo.op), listOk, outcome)
            /\ demo' = TestStep("remove", TestCalled("download_audio_file"))
       ELSE /\ listOk /\ outcome = "saved"
            /\ demo' = TestStep("remove", demo.calls)
            /\ UNCHANGED audioVars
    /\ UNCHANGED ctlVars

(* remove_audio_file(test_filename + ".ogg", confirm=False) *)
SelfTestRemove(listOk, sdkOk) ==
    /\ demo.arg = "remove"
    /\ RemoveAudioFile(TestFile(demo.op), FALSE, TRUE, listOk, sdkOk)
    /\ demo' = TestStep(TestAfter(demo.op), TestCalled("remove_audio_file"))
    /\ UNCHANGED ctlVars

(* info = audio.get_file_info(), which lists the files *)
SelfTestInfo(listOk) ==
    /\ demo.arg = "info"
    /\ ListFiles(listOk)
    /\ demo' = TestStep("finally", demo.calls)
    /\ UNCHANGED ctlVars

(* finally: controller.disconnect() *)
SelfTestFinally ==
    /\ demo.arg = "finally"
    /\ Disconnect
    /\ demo' = TestStep("returned", demo.calls)
    /\ UNCHANGED audioVars

InitSelfTest == Init /\ robot = FullRobot

TestFrame == UNCHANGED <<scriptVars, gazeboVars, rvizVars, mime, mujoco>>

TestStart == (\E test \in SelfTests : SelfTestStart(test)) /\ TestFrame

TestConnect == (\E ctorOk, infoOk \in BOOLEAN : SelfTestConnect(ctorOk, infoOk)) /\ TestFrame

TestList == (\E listOk \in BOOLEAN : SelfTestList(listOk)) /\ TestFrame

TestRecord ==
    (\E outcome \in Outcomes, listOk \in BOOLEAN : SelfTestRecord(outcome, listOk))
    /\ TestFrame

TestPlay == (\E listOk, sdkOk \in BOOLEAN : SelfTestPlay(listOk, sdkOk)) /\ TestFrame

TestHeard == (\E heard, listOk \in BOOLEAN : SelfTestHeard(heard, listOk)) /\ TestFrame

TestDownload ==
    (\E yes, listOk \in BOOLEAN, outcome \in Outcomes :
        SelfTestDownload(yes, listOk, outcome))
    /\ TestFrame

TestRemove == (\E listOk, sdkOk \in BOOLEAN : SelfTestRemove(listOk, sdkOk)) /\ TestFrame

TestInfo == (\E listOk \in BOOLEAN : SelfTestInfo(listOk)) /\ TestFrame

TestFinally == SelfTestFinally /\ TestFrame

(* The SDK comes to the end of the recording while the test sleeps *)
TestPlaybackEnds ==
    /\ demo.arg \in {"remove", "asked"}
    /\ PlaybackEnds
    /\ UNCHANGED <<ctlVars, scriptVars, extVars>>

NextSelfTest ==
    \/ TestStart
    \/ TestConnect
    \/ TestList
    \/ TestRecord
    \/ TestPlay
    \/ TestHeard
    \/ TestDownload
    \/ TestRemove
    \/ TestInfo
    \/ TestFinally
    \/ TestPlaybackEnds

SpecSelfTest == InitSelfTest /\ [][NextSelfTest]_vars

----------------------------------------------------------------------------
(* A session in which any SDK call of an operation may raise: the motion     *)
(* operations of the controller and the operations of an AudioManager built  *)
(* on its handle, one after the other, MaxMoves of them at most.  The session *)
(* is followed up to the first operation in which an SDK call raised.         *)

(* Every SDK call of the longest operation, move_to_neutral_position *)
AllFailPoints == 0..(2 * Len(ARM_ORDER) + Len(HEAD_ORDER))

ErrName == <<"a">> \o OGG

InitErrors == Init /\ robot = FullRobot

(* No SDK call of the last motion or audio operation raised *)
NoneRaised ==
    /\ call.op # "connect" => Raised(trace) = {}
    /\ Raised(atrace) = {}

(* An audio operation, counted in the budget of the session *)
Counted(operation) ==
    /\ NoneRaised
    /\ moves < MaxMoves
    /\ moves' = moves + 1
    /\ operation
    /\ UNCHANGED <<jointLimits, reachy, connected, created, closed, robot, goal,
                   power, call, trace, scriptVars, extVars>>

ErrConnect == apc = "idle" /\ CallConnect

ErrMoveJoint ==
    /\ apc = "idle"
    /\ NoneRaised
    /\ \E failAt \in AllFailPoints : MoveJoint("r_arm", "elbow.pitch", -1200, 5, failAt)
    /\ UNCHANGED <<scriptVars, audioVars, extVars>>

ErrWaveHello ==
    /\ apc = "idle"
    /\ NoneRaised
    /\ \E failAt \in AllFailPoints : WaveHello("r_arm", failAt)
    /\ UNCHANGED <<scriptVars, audioVars, extVars>>

ErrMoveToNeutral ==
    /\ apc = "idle"
    /\ NoneRaised
    /\ \E failAt \in AllFailPoints : MoveToNeutralPosition(30, failAt)
    /\ UNCHANGED <<scriptVars, audioVars, extVars>>

ErrIntroSetup ==
    /\ apc = "idle"
    /\ NoneRaised
    /\ \E failAt \in AllFailPoints : PerformIntroSetup("medium", failAt)
    /\ UNCHANGED <<scriptVars, audioVars, extVars>>

ErrReset ==
    /\ apc = "idle"
    /\ NoneRaised
    /\ \E failAt \in AllFailPoints : ResetToDownPosition(failAt)
    /\ UNCHANGED <<scriptVars, audioVars, extVars>>

ErrList == Counted(\E listOk \in BOOLEAN : ListFiles(listOk))

ErrUpload == Counted(\E exists, sdkOk \in BOOLEAN : UploadAudioFile(ErrName, exists, sdkOk))

ErrPlay ==
    Counted(\E wait_for_completion, listOk, sdkOk \in BOOLEAN :
                PlayAudioFile(ErrName, wait_for_completion, listOk, sdkOk))

ErrWaitSleep == PlayWaitSleep /\ UNCHANGED <<ctlVars, scriptVars, extVars>>

ErrWaitWake == PlayWaitWake /\ UNCHANGED <<ctlVars, scriptVars, extVars>>

ErrWaitInterrupt ==
    /\ \E sdkOk \in BOOLEAN : PlayWaitInterrupt(sdkOk)
    /\ UNCHANGED <<ctlVars, scriptVars, extVars>>

ErrPlaybackEnds == PlaybackEnds /\ UNCHANGED <<ctlVars, scriptVars, extVars>>

ErrStop == Counted(\E sdkOk \in BOOLEAN : StopPlayback(sdkOk))

ErrRecord ==
    Counted(\E countdown, listOk \in BOOLEAN, outcome \in Outcomes :
                RecordAudio(<<"a">>, 5, countdown, outcome, listOk))

ErrStopRecording == Counted(\E sdkOk \in BOOLEAN : StopRecording(sdkOk))

ErrDownload ==
    Counted(\E listOk \in BOOLEAN, outcome \in Outcomes :
                DownloadAudioFile(ErrName, listOk, outcome))

ErrRemove ==
    Counted(\E confirm, yes, listOk, sdkOk \in BOOLEAN :
                RemoveAudioFile(ErrName, confirm, yes, listOk, sdkOk))

NextErrors ==
    \/ ErrConnect
    \/ ErrMoveJoint
    \/ ErrWaveHello
    \/ ErrMoveToNeutral
    \/ ErrIntroSetup
    \/ ErrReset
    \/ ErrList
    \/ ErrUpload
    \/ ErrPlay
    \/ ErrWaitSleep
    \/ ErrWaitWake
    \/ ErrWaitInterrupt
    \/ ErrPlaybackEnds
    \/ ErrStop
    \/ ErrRecord
    \/ ErrStopRecording
    \/ ErrDownload
    \/ ErrRemove

SpecErrors == InitErrors /\ [][NextErrors]_vars

----------------------------------------------------------------------------
(* interactive_demo.py: main() and the handlers of the menu that go through   *)
(* the controller.  The handlers of the head, antenna, gripper, Cartesian,    *)
(* kinematics and audio choices (7 to 17) are not followed.                   *)

(* The key read_joint_positions files the joints of a part under *)
PositionsKey(part) ==
    IF part = "r_arm" THEN "right_arm" ELSE IF part = "l_arm" THEN "left_arm" ELSE part

(* The keys of the dictionary read_joint_positions returns *)
PositionsKeys ==
    IF NotConnected THEN {"error"}
    ELSE {PositionsKey(part) : part \in {p \in {"r_arm", "l_arm", "head"} : HasPart(p)}}

(* if part in positions: the part name is looked up as it was typed *)
PartKey(part) == part

MENU_PARTS == {"r_arm", "l_arm", "head"}

(* move_specific_joint(controller); numeric: the two numbers typed parse;     *)
(* turnOnOk: the turn_on of the part does not raise; badPart: the part whose  *)
(* reads raise; failAt: the SDK call of move_joint that raises                *)
MoveSpecificJoint(part, joint, numeric, position, duration, turnOnOk, badPart, failAt) ==
    LET turnOn == <<Ev("turn_on", part, "-", <<>>, ~turnOnOk \/ ~HasPart(part))>>
        read == ReadPart("r_arm", badPart) \o ReadPart("l_arm", badPart)
                \o ReadPart("head", badPart)
        found == PartKey(part) \in PositionsKeys
        reaches == /\ MoveJointPasses(part, joint, position)
                   /\ HasPart(part)
                   /\ joint \in robot[part]
        move == IF reaches
                THEN TraceOf(MoveJointSteps(part, joint, position, duration), failAt)
                ELSE <<>>
        moved == Call("move_joint", part, joint, position, duration,
                      IF reaches /\ failAt = 0 THEN "True" ELSE "False")
        readCall == Call("read_joint_positions", badPart, "-", 0, 0, "positions")
        out == IF part \notin MENU_PARTS
               THEN [msg |-> "Invalid part name", tr |-> <<>>, c |-> call]
               ELSE IF turnOn[1].raised
               THEN [msg |-> "Error", tr |-> turnOn, c |-> call]
               ELSE IF ~found
               THEN [msg |-> "Failed to read joints", tr |-> turnOn \o read, c |-> readCall]
               ELSE IF part = badPart
               THEN [msg |-> "Error", tr |-> turnOn \o read, c |-> readCall]
               ELSE IF joint \notin robot[part]
               THEN [msg |-> "Invalid joint name", tr |-> turnOn \o read, c |-> readCall]
               ELSE IF ~numeric
               THEN [msg |-> "Invalid numeric input", tr |-> turnOn \o read, c |-> readCall]
               ELSE [msg |-> IF moved.result = "True" THEN "[SUCCESS] Movement completed"
                             ELSE "[FAILED] Movement failed",
                     tr |-> turnOn \o read \o move, c |-> moved]
    IN  /\ ~NotConnected
        /\ badPart # "-" => HasPart(badPart)
        /\ failAt \in 0..(IF reaches THEN 1 ELSE 0)
        /\ trace' = out.tr
        /\ call' = out.c
        /\ goal' = ApplyGoals(goal, out.tr)
        /\ power' = ApplyPower(power, out.tr)
        /\ demo' = XCall("move_specific_joint", <<part, joint>>, out.msg,
                         IF badPart = "-" THEN <<>> ELSE <<badPart>>)
        /\ UNCHANGED <<jointLimits, reachy, connected, created, closed, robot>>

(* finally: turn_off_smoothly() if connected, then controller.disconnect();   *)
(* an exception of turn_off_smoothly leaves main() before the disconnect      *)
DemoFinallyClause(offOk) ==
    IF connected /\ reachy # 0
    THEN /\ trace' = <<Ev("turn_off_smoothly", "reachy", "-", <<>>, ~offOk)>>
                     \o (IF offOk THEN <<Ev("disconnect", "-", "-", <<>>, FALSE)>>
                         ELSE <<>>)
         /\ closed' = IF offOk THEN closed \cup {reachy} ELSE closed
         /\ connected' = ~offOk
         /\ power' = ApplyPower(power, trace')
         /\ call' = IF offOk THEN Call("disconnect", "-", "-", 0, 0, "None") ELSE call
         /\ pc' = IF offOk THEN "exited" ELSE "raised"
         /\ UNCHANGED <<jointLimits, reachy, created, robot, goal, moves>>
    ELSE /\ offOk
         /\ Disconnect
         /\ pc' = "exited"

InitDemo ==
    /\ CtlStart
    /\ ExtStart
    /\ call = NoCall
    /\ script = "interactive_demo"
    /\ pc = "start"
    /\ AudioStart
    /\ acall = NoACall

(* if not controller.connect(): return *)
DemoConnect ==
    /\ pc = "start"
    /\ \E ctorOk, infoOk \in BOOLEAN : Connect(ctorOk, infoOk)
    /\ pc' = IF call'.result = "True" THEN "turn_on" ELSE "finally"
    /\ UNCHANGED <<script, audioVars, extVars>>

(* controller.reachy.turn_on(), outside the try of the menu loop *)
DemoTurnOn ==
    /\ pc = "turn_on"
    /\ \E ok \in BOOLEAN :
          /\ trace' = <<Ev("turn_on", "reachy", "-", <<>>, ~ok)>>
          /\ pc' = IF ok THEN "menu" ELSE "finally"
    /\ power' = ApplyPower(power, trace')
    /\ UNCHANGED <<jointLimits, reachy, connected, created, closed, robot, goal, call,
                   moves, script, audioVars, extVars>>

(* KeyboardInterrupt at the prompt (break), or outside the try of the loop *)
DemoInterrupt ==
    /\ pc \in {"turn_on", "menu"}
    /\ pc' = "finally"
    /\ UNCHANGED <<ctlVars, script, audioVars, extVars>>

(* choice 18 *)
DemoExit ==
    /\ pc = "menu"
    /\ pc' = "finally"
    /\ demo' = XCall("exit", "18", "-", <<>>)
    /\ UNCHANGED <<ctlVars, script, audioVars, gazeboVars, rvizVars, mime, mujoco>>

(* choice 1 *)
DemoInfo ==
    /\ pc = "menu"
    /\ GetRobotInfo
    /\ demo' = XCall("robot_status", "1", "-", <<>>)
    /\ UNCHANGED <<scriptVars, audioVars, gazeboVars, rvizVars, mime, mujoco>>

(* choice 2; the print of an error entry with {position:.3f} raises and the   *)
(* loop goes on                                                               *)
DemoPositions ==
    /\ pc = "menu"
    /\ \E badPart \in {"-", "r_arm", "l_arm", "head"} : ReadJointPositions(badPart)
    /\ demo' = XCall("joint_positions", "2", IF call'.part = "-" THEN "-" ELSE "Error",
                     <<>>)
    /\ UNCHANGED <<scriptVars, audioVars, gazeboVars, rvizVars, mime, mujoco>>

(* choice 3 *)
DemoNeutral ==
    /\ pc = "menu"
    /\ \E failAt \in FailPoints : MoveToNeutralPosition(30, failAt)
    /\ demo' = XCall("neutral", "3", call'.result, <<>>)
    /\ UNCHANGED <<scriptVars, audioVars, gazeboVars, rvizVars, mime, mujoco>>

(* choice 6 *)
DemoMoveSpecificJoint ==
    /\ pc = "menu"
    /\ moves < MaxMoves
    /\ moves' = moves + 1
    /\ \E part \in MENU_PARTS \cup {"torso"}, joint \in {"neck.yaw", "elbow.pitch", "x"},
          numeric, turnOnOk \in BOOLEAN, position \in {0, 2 * PI_MILLI},
          badPart \in {"-", "r_arm", "head"}, failAt \in 0..1 :
          MoveSpecificJoint(part, joint, numeric, position, 20, turnOnOk, badPart, failAt)
    /\ UNCHANGED <<scriptVars, audioVars, gazeboVars, rvizVars, mime, mujoco>>

DemoFinally ==
    /\ pc = "finally"
    /\ \E offOk \in BOOLEAN : DemoFinallyClause(offOk)
    /\ UNCHANGED <<script, audioVars, extVars>>

NextDemo ==
    \/ DemoConnect
    \/ DemoTurnOn
    \/ DemoInterrupt
    \/ DemoExit
    \/ DemoInfo
    \/ DemoPositions
    \/ DemoNeutral
    \/ DemoMoveSpecificJoint
    \/ DemoFinally

SpecDemo == InitDemo /\ [][NextDemo]_vars

----------------------------------------------------------------------------
(* The controller driven by a free caller that also asks for the robot's      *)
(* information and joint positions, each operation with one set of arguments  *)

InitSession == Init /\ robot = FullRobot

SesInfo == GetRobotInfo /\ UNCHANGED <<scriptVars, audioVars, extVars>>

SesRead ==
    /\ \E badPart \in {"-", "r_arm", "l_arm", "head"} : ReadJointPositions(badPart)
    /\ UNCHANGED <<scriptVars, audioVars, extVars>>

SesMoveJoint ==
    /\ \E failAt \in FailPoints : MoveJoint("r_arm", "elbow.pitch", -1200, 5, failAt)
    /\ UNCHANGED <<scriptVars, audioVars, extVars>>

SesWaveHello ==
    /\ \E failAt \in FailPoints : WaveHello("r_arm", failAt)
    /\ UNCHANGED <<scriptVars, audioVars, extVars>>

SesMoveToNeutral ==
    /\ \E failAt \in FailPoints : MoveToNeutralPosition(30, failAt)
    /\ UNCHANGED <<scriptVars, audioVars, extVars>>

SesIntroSetup ==
    /\ \E failAt \in FailPoints : PerformIntroSetup("medium", failAt)
    /\ UNCHANGED <<scriptVars, audioVars, extVars>>

SesReset ==
    /\ \E failAt \in FailPoints : ResetToDownPosition(failAt)
    /\ UNCHANGED <<scriptVars, audioVars, extVars>>

NextSession ==
    \/ CallConnect
    \/ CallDisconnect
    \/ SesInfo
    \/ SesRead
    \/ SesMoveJoint
    \/ SesWaveHello
    \/ SesMoveToNeutral
    \/ SesIntroSetup
    \/ SesReset

SpecSession == InitSession /\ [][NextSession]_vars

----------------------------------------------------------------------------
(* gazebo_scene_manager.py: GazeboSceneManager.  The manager reaches the      *)
(* simulator through docker exec calls; a call is recorded with the timeout  *)
(* it was given (none, or 20 s in tenths of a second) and with the reply of  *)
(* the container: "zero" (exit code 0 and, for a script run, the line that   *)
(* reports success), "unmarked" (exit code 0 without that line), "nonzero",   *)
(* "silent" (the container never responds) or "raises" (subprocess.run       *)
(* raises at once, docker being unavailable).                                *)

TABLE_SCENE == <<"table_main", "goal_box">>

FRUITS_SCENE == <<"table_fruits", "apple1", "apple2", "orange1", "orange2",
                  "plate", "bowl">>

KITCHEN_SCENE == <<"counter", "cutting_board", "knife", "pan">>

SceneObjects(scene) ==
    IF scene = "table_scene" THEN TABLE_SCENE
    ELSE IF scene = "fruits_scene" THEN FRUITS_SCENE
    ELSE KITCHEN_SCENE

Range(seq) == {seq[i] : i \in 1..Len(seq)}

DockerCall(kind, obj, timeout, reply) ==
    [kind |-> kind, obj |-> obj, timeout |-> timeout, reply |-> reply]

(* subprocess.run without a timeout does not return while the container is   *)
(* silent; with a timeout it raises TimeoutExpired                           *)
Hangs(c) == c.reply = "silent" /\ c.timeout = <<>>

(* A fault: the kind of docker call that goes wrong, and how *)
NoFault == <<"-", "zero">>

Faults == { <<"write_sdf", "nonzero">>, <<"write_sdf", "silent">>,
            <<"write_sdf", "raises">>,
            <<"write_script", "nonzero">>, <<"write_script", "silent">>,
            <<"run_script", "nonzero">>, <<"run_script", "silent">>,
            <<"run_script", "unmarked">> }

ReplyTo(kind, fault) == IF fault[1] = kind THEN fault[2] ELSE "zero"

(* _spawn_object_alternative running its script whatever the write did *)
spawn_object_alternative_unchecked(obj, fault) ==
    LET write == DockerCall("write_script", obj, <<>>, ReplyTo("write_script", fault))
        run == DockerCall("run_script", obj, <<200>>, ReplyTo("run_script", fault))
    IN  <<write, run>>

(* The docker calls of _spawn_object_alternative: the script is run only     *)
(* after its write exited with 0                                             *)
spawn_object_alternative(obj, fault) ==
    LET write == DockerCall("write_script", obj, <<>>, ReplyTo("write_script", fault))
        run == DockerCall("run_script", obj, <<200>>, ReplyTo("run_script", fault))
    IN  IF write.reply = "zero" THEN <<write, run>> ELSE <<write>>

(* The docker calls of _spawn_object_in_gazebo *)
spawn_object_in_gazebo(obj, fault) ==
    LET write == DockerCall("write_sdf", obj, <<>>, ReplyTo("write_sdf", fault))
    IN  IF write.reply = "zero" THEN <<write>> \o spawn_object_alternative(obj, fault)
        ELSE <<write>>

(* The docker calls of _remove_object_from_gazebo *)
remove_object_from_gazebo(obj_name, fault) ==
    LET write == DockerCall("write_script", obj_name, <<>>, ReplyTo("write_script", fault))
        run == DockerCall("run_script", obj_name, <<200>>, ReplyTo("run_script", fault))
    IN  IF write.reply = "zero" THEN <<write, run>> ELSE <<write>>

(* What a spawn or a removal returns after its docker calls: True when the   *)
(* script ran and reported success, False when a call failed, raised or      *)
(* timed out; "blocked" stands for a call that never returns                 *)
DockerResult(calls) ==
    LET last == calls[Len(calls)]
    IN  IF Hangs(last) THEN "blocked"
        ELSE IF last.kind = "run_script" /\ last.reply = "zero" THEN "True"
        ELSE "False"

(* for obj in scene_objects: if self._spawn_object_in_gazebo(obj): ...       *)
(* The objects of failing meet the fault.  ok: the names appended to         *)
(* spawned_objects; blocked: a call of the loop never returned               *)
RECURSIVE SpawnLoop(_, _, _)
SpawnLoop(objs, failing, fault) ==
    IF objs = <<>> THEN [calls |-> <<>>, ok |-> <<>>, blocked |-> FALSE]
    ELSE LET obj == Head(objs)
             calls == spawn_object_in_gazebo(obj, IF obj \in failing THEN fault ELSE NoFault)
             rest == SpawnLoop(Tail(objs), failing, fault)
         IN  IF DockerResult(calls) = "blocked"
             THEN [calls |-> calls, ok |-> <<>>, blocked |-> TRUE]
             ELSE [calls |-> calls \o rest.calls,
                   ok |-> (IF DockerResult(calls) = "True" THEN <<obj>> ELSE <<>>) \o rest.ok,
                   blocked |-> rest.blocked]

(* for obj_name in self.spawned_objects: if self._remove_object_from_gazebo  *)
RECURSIVE RemoveLoop(_, _, _)
RemoveLoop(names, failing, fault) ==
    IF names = <<>> THEN [calls |-> <<>>, ok |-> <<>>, blocked |-> FALSE]
    ELSE LET obj_name == Head(names)
             calls == remove_object_from_gazebo(obj_name,
                          IF obj_name \in failing THEN fault ELSE NoFault)
             rest == RemoveLoop(Tail(names), failing, fault)
         IN  IF DockerResult(calls) = "blocked"
             THEN [calls |-> calls, ok |-> <<>>, blocked |-> TRUE]
             ELSE [calls |-> calls \o rest.calls,
                   ok |-> (IF DockerResult(calls) = "True" THEN <<obj_name>> ELSE <<>>)
                          \o rest.ok,
                   blocked |-> rest.blocked]

(* return success_count > 0 *)
CreateResult(ok) == Bool(Len(ok) > 0)

(* A create_*_scene that starts its list of spawned objects anew *)
CreateSceneReplacing(op, scene, failing, fault) ==
    LET run == SpawnLoop(SceneObjects(scene), failing, fault)
    IN  /\ gzCall.result # "blocked"
        /\ gzScene' = scene
        /\ gzSpawned' = run.ok
        /\ gzWorld' = gzWorld \cup Range(run.ok)
        /\ gzCall' = XCall(op, scene,
                           IF run.blocked THEN "blocked" ELSE CreateResult(run.ok),
                           run.calls)

(* create_table_scene, create_fruits_scene and create_kitchen_scene *)
CreateScene(op, scene, failing, fault) ==
    LET run == SpawnLoop(SceneObjects(scene), failing, fault)
    IN  /\ gzCall.result # "blocked"
        /\ gzScene' = scene
        /\ gzSpawned' = gzSpawned \o run.ok
        /\ gzWorld' = gzWorld \cup Range(run.ok)
        /\ gzCall' = XCall(op, scene,
                           IF run.blocked THEN "blocked" ELSE CreateResult(run.ok),
                           run.calls)

(* clear_scene *)
ClearScene(failing, fault) ==
    LET run == RemoveLoop(gzSpawned, failing, fault)
    IN  /\ gzCall.result # "blocked"
        /\ gzScene' = IF run.blocked THEN gzScene ELSE "None"
        /\ gzSpawned' = IF run.blocked THEN gzSpawned ELSE <<>>
        /\ gzWorld' = gzWorld \ Range(run.ok)
        /\ gzCall' = XCall("clear_scene", "-",
                           IF run.blocked THEN "blocked" ELSE "True", run.calls)

(* _spawn_object_in_gazebo called on its own, as test_simple_spawn does *)
SpawnObjectInGazebo(obj, fault) ==
    LET calls == spawn_object_in_gazebo(obj, fault)
    IN  /\ gzCall.result # "blocked"
        /\ gzWorld' = IF DockerResult(calls) = "True" THEN gzWorld \cup {obj} ELSE gzWorld
        /\ gzCall' = XCall("_spawn_object_in_gazebo", obj, DockerResult(calls), calls)
        /\ UNCHANGED <<gzScene, gzSpawned>>

(* _remove_object_from_gazebo called on its own *)
RemoveObjectFromGazebo(obj_name, fault) ==
    LET calls == remove_object_from_gazebo(obj_name, fault)
    IN  /\ gzCall.result # "blocked"
        /\ gzWorld' = IF DockerResult(calls) = "True" THEN gzWorld \ {obj_name} ELSE gzWorld
        /\ gzCall' = XCall("_remove_object_from_gazebo", obj_name, DockerResult(calls), calls)
        /\ UNCHANGED <<gzScene, gzSpawned>>

----------------------------------------------------------------------------
(* The scene manager driven by a free caller, MaxMoves operations at most *)

TEST_OBJECT == "test_red_box"

(* The objects that meet the fault: none, the first, the last, or all *)
FailSets(names) ==
    IF names = <<>> THEN {{}}
    ELSE {{}, {names[1]}, {names[Len(names)]}, Range(names)}

AnyFault == Faults \cup {NoFault}

InitGazebo == Init /\ robot = FullRobot

(* An operation of the scene manager, counted in the budget *)
GzCounted(operation) ==
    /\ moves < MaxMoves
    /\ moves' = moves + 1
    /\ operation
    /\ UNCHANGED <<jointLimits, reachy, connected, created, closed, robot, goal,
                   power, call, trace, scriptVars, audioVars, rvizVars, mime, mujoco, demo>>

GzCreateTable ==
    GzCounted(\E failing \in FailSets(TABLE_SCENE), fault \in Faults :
                  CreateScene("create_table_scene", "table_scene", failing, fault))

GzCreateFruits ==
    GzCounted(\E failing \in FailSets(FRUITS_SCENE), fault \in Faults :
                  CreateScene("create_fruits_scene", "fruits_scene", failing, fault))

GzCreateKitchen ==
    GzCounted(\E failing \in FailSets(KITCHEN_SCENE), fault \in Faults :
                  CreateScene("create_kitchen_scene", "kitchen_scene", failing, fault))

GzClear ==
    GzCounted(\E failing \in FailSets(gzSpawned), fault \in Faults :
                  ClearScene(failing, fault))

GzSpawnObject == GzCounted(\E fault \in AnyFault : SpawnObjectInGazebo(TEST_OBJECT, fault))

GzRemoveObject ==
    GzCounted(\E fault \in AnyFault : RemoveObjectFromGazebo(TEST_OBJECT, fault))

NextGazebo ==
    \/ GzCreateTable
    \/ GzCreateFruits
    \/ GzCreateKitchen
    \/ GzClear
    \/ GzSpawnObject
    \/ GzRemoveObject

SpecGazebo == InitGazebo /\ [][NextGazebo]_vars

----------------------------------------------------------------------------
(* test_mujoco_connection.py: the connection test and its retry loop.  The   *)
(* variable mujoco holds the number of attempts that failed (arg), the SDK   *)
(* calls and sleeps so far (calls) and the value returned ("running" before) *)

MAX_RETRIES == 5

RETRY_DELAY == 100

(* The body of the try block of one attempt *)
AttemptSteps ==
    << Ev("ReachySDK", "-", "-", <<>>, FALSE), Sleep(30),
       SdkCall("info", "-", "-", <<>>),
       SdkCall("is_connected", "-", "-", <<>>),
       SdkCall("turn_on", "head", "-", <<>>), Sleep(10),
       SdkCall("look_at", "head", "-", <<500, 0, 100, 10>>),
       SdkCall("disconnect", "-", "-", <<>>) >>

(* The retry loop sleeping after its last attempt as well *)
RetrySleepAlways(attempt) == <<Sleep(RETRY_DELAY)>>

(* if attempt < max_retries - 1: time.sleep(retry_delay) *)
RetrySleep(attempt) ==
    IF attempt < MAX_RETRIES - 1 THEN <<Sleep(RETRY_DELAY)>> ELSE <<>>

(* One turn of for attempt in range(max_retries); failAt: the SDK call of    *)
(* the attempt that raises (0: none)                                         *)
MujocoAttempt(failAt) ==
    LET attempt == mujoco.arg
    IN  /\ mujoco.op = "test_mujoco_connection"
        /\ mujoco.result = "running"
        /\ attempt < MAX_RETRIES
        /\ failAt \in 0..Cardinality(SdkCalls(AttemptSteps))
        /\ mujoco' =
              IF failAt = 0
              THEN XCall(mujoco.op, attempt, "True", mujoco.calls \o AttemptSteps)
              ELSE XCall(mujoco.op, attempt + 1,
                         IF attempt + 1 < MAX_RETRIES THEN "running" ELSE "False",
                         mujoco.calls \o TraceOf(AttemptSteps, failAt)
                                      \o RetrySleep(attempt))
        /\ UNCHANGED <<ctlVars, scriptVars, audioVars, gazeboVars, rvizVars, mime, demo>>

InitMujoco ==
    /\ CtlStart
    /\ robot = FullRobot
    /\ call = NoCall
    /\ script = "-"
    /\ pc = "-"
    /\ AudioStart
    /\ acall = NoACall
    /\ GazeboStart
    /\ RvizStart(FALSE)
    /\ mime = NoXCall
    /\ mujoco = XCall("test_mujoco_connection", 0, "running", <<>>)
    /\ demo = NoXCall

NextMujoco == \E failAt \in AllFailPoints : MujocoAttempt(failAt)

SpecMujoco == InitMujoco /\ [][NextMujoco]_vars

----------------------------------------------------------------------------
(* rviz_scene_manager.py: RVizSceneManager, with the RVizMarkerPublisher of   *)
(* rviz_marker_publisher.py.  An object is its name and its type.            *)

MaxMarkers == 15

Obj(name, type) == [name |-> name, type |-> type]

RV_FRUITS_SCENE ==
    << Obj("table", "box"), Obj("apple1", "sphere"), Obj("apple2", "sphere"),
       Obj("orange1", "sphere"), Obj("orange2", "sphere"),
       Obj("plate", "cylinder"), Obj("bowl", "cylinder") >>

RV_TABLE_SCENE == << Obj("table", "box"), Obj("goal_box", "box") >>

RV_BASE_SCENE == << Obj("floor", "plane") >>

RV_KITCHEN_SCENE ==
    << Obj("counter", "box"), Obj("cutting_board", "box"), Obj("knife", "box"),
       Obj("pan", "cylinder") >>

RvSceneObjects(scene) ==
    CASE scene = "fruits_scene" -> RV_FRUITS_SCENE
      [] scene = "table_scene" -> RV_TABLE_SCENE
      [] scene = "base_scene" -> RV_BASE_SCENE
      [] scene = "kitchen_scene" -> RV_KITCHEN_SCENE
      [] OTHER -> <<>>

(* The types publish_scene_markers makes a marker of; others are skipped *)
MARKER_TYPES == {"box", "sphere", "cylinder"}

(* create_box_marker, create_sphere_marker, create_cylinder_marker: the marker *)
(* takes self.marker_id                                                       *)
create_marker(obj, marker_id) == [id |-> marker_id, name |-> obj.name, type |-> obj.type]

(* The loop of publish_scene_markers: the markers of the objects from the     *)
(* first free id on                                                           *)
RECURSIVE MarkersOf(_, _)
MarkersOf(scene_objects, marker_id) ==
    IF scene_objects = <<>> THEN <<>>
    ELSE IF Head(scene_objects).type \in MARKER_TYPES
         THEN <<create_marker(Head(scene_objects), marker_id)>>
              \o MarkersOf(Tail(scene_objects), marker_id + 1)
         ELSE MarkersOf(Tail(scene_objects), marker_id)

(* publish_scene_markers: nothing is made without ROS 2; with it the markers  *)
(* are appended to self.markers                                               *)
publish_scene_markers(scene_objects) ==
    IF ~rvHasRos THEN <<>> ELSE MarkersOf(scene_objects, rvMarkerId)

(* clear_markers keeping the id counter *)
clear_markers_keeping_id == [markers |-> <<>>, marker_id |-> rvMarkerId]

(* clear_markers: self.markers.clear(); self.marker_id = 0 *)
clear_markers == [markers |-> <<>>, marker_id |-> 0]

(* create_fruits_scene, create_table_scene, create_base_scene and             *)
(* create_kitchen_scene, which differ in the scene description only           *)
RvCreateScene(op, scene) ==
    LET markers == publish_scene_markers(RvSceneObjects(scene))
    IN  /\ rvScene' = scene
        /\ rvMarkers' = rvMarkers \o markers
        /\ rvMarkerId' = rvMarkerId + Len(markers)
        /\ rvCall' = XCall(op, Len(rvMarkers), "True", markers)
        /\ UNCHANGED rvHasRos

RvClearScene ==
    /\ rvScene' = "None"
    /\ rvMarkers' = clear_markers.markers
    /\ rvMarkerId' = clear_markers.marker_id
    /\ rvCall' = XCall("clear_scene", Len(rvMarkers), "True", <<>>)
    /\ UNCHANGED rvHasRos

(* get_marker_count and get_current_scene *)
get_marker_count == Len(rvMarkers)

get_current_scene == rvScene

----------------------------------------------------------------------------
(* The scene manager driven by a free caller, with and without ROS 2, while   *)
(* the marker list holds no more than MaxMarkers markers                      *)

InitRviz ==
    /\ CtlStart
    /\ robot = FullRobot
    /\ call = NoCall
    /\ script = "-"
    /\ pc = "-"
    /\ AudioStart
    /\ acall = NoACall
    /\ GazeboStart
    /\ \E has_ros \in BOOLEAN : RvizStart(has_ros)
    /\ mime = NoXCall
    /\ mujoco = NoXCall
    /\ demo = NoXCall

RvCalled(operation) ==
    /\ operation
    /\ Len(rvMarkers') <= MaxMarkers
    /\ UNCHANGED <<ctlVars, scriptVars, audioVars, gazeboVars, mime, mujoco, demo>>

RvCreateFruits == RvCalled(RvCreateScene("create_fruits_scene", "fruits_scene"))

RvCreateTable == RvCalled(RvCreateScene("create_table_scene", "table_scene"))

RvCreateBase == RvCalled(RvCreateScene("create_base_scene", "base_scene"))

RvCreateKitchen == RvCalled(RvCreateScene("create_kitchen_scene", "kitchen_scene"))

RvClear == RvCalled(RvClearScene)

NextRviz ==
    \/ RvCreateFruits
    \/ RvCreateTable
    \/ RvCreateBase
    \/ RvCreateKitchen
    \/ RvClear

SpecRviz == InitRviz /\ [][NextRviz]_vars

----------------------------------------------------------------------------
(* mime_performance.py: MimePerformer.  A command is recorded with the act   *)
(* that issued it; the poses and angles it carries are left out.             *)

MaxPulls == 2

Cmd(act, kind, part) == [act |-> act, kind |-> kind, part |-> part, raised |-> FALSE]

Nap(act, d) == [act |-> act, kind |-> "sleep", part |-> "-", raised |-> FALSE, d |-> d]

RECURSIVE Rep(_, _)
Rep(n, steps) == IF n = 0 THEN <<>> ELSE steps \o Rep(n - 1, steps)

SetupSteps ==
    << Cmd("setup", "turn_on", "reachy"), Nap("setup", 20),
       Cmd("setup", "turn_on", "head"), Cmd("setup", "goto", "head"),
       Cmd("setup", "turn_on", "r_arm"), Cmd("setup", "turn_on", "l_arm"),
       Cmd("setup", "goto_posture", "r_arm"), Cmd("setup", "goto_posture", "l_arm"),
       Cmd("setup", "gripper.open", "r_arm"), Cmd("setup", "gripper.open", "l_arm") >>

DiscoverSteps ==
    Rep(5, <<Cmd("discover", "goto", "head"), Nap("discover", 5)>>)
    \o <<Cmd("discover", "forward_kinematics", "r_arm"), Cmd("discover", "goto", "r_arm")>>
    \o Rep(9, <<Cmd("discover", "goto", "r_arm")>>)
    \o <<Cmd("discover", "gripper.close", "r_arm"), Nap("discover", 10)>>

PullSteps(use_right_arm) ==
    LET arm == IF use_right_arm THEN "r_arm" ELSE "l_arm"
    IN  << Cmd("pull", "forward_kinematics", arm), Cmd("pull", "goto", arm),
           Cmd("pull", "gripper.close", arm), Nap("pull", 3) >>
        \o Rep(5, <<Cmd("pull", "goto", arm), Nap("pull", 1)>>)
        \o << Cmd("pull", "gripper.open", arm), Nap("pull", 2),
               Cmd("pull", "goto", arm), Cmd("pull", "goto", arm) >>

FinaleSteps ==
    << Cmd("finale", "forward_kinematics", "r_arm"),
       Cmd("finale", "forward_kinematics", "l_arm"),
       Cmd("finale", "goto", "r_arm"), Cmd("finale", "goto", "l_arm"),
       Cmd("finale", "gripper.close", "r_arm"), Cmd("finale", "gripper.close", "l_arm"),
       Nap("finale", 5),
       Cmd("finale", "goto", "r_arm"), Cmd("finale", "goto", "l_arm"), Nap("finale", 5),
       Cmd("finale", "goto", "head"),
       Cmd("finale", "goto", "r_arm"), Cmd("finale", "goto", "l_arm"),
       Cmd("finale", "gripper.open", "r_arm"), Cmd("finale", "gripper.open", "l_arm"),
       Nap("finale", 10),
       Cmd("finale", "goto", "head"), Nap("finale", 10),
       Cmd("finale", "goto", "head"), Nap("finale", 10),
       Cmd("finale", "goto", "head") >>

BowSteps ==
    << Cmd("bow", "goto_posture", "r_arm"), Cmd("bow", "goto_posture", "l_arm"),
       Cmd("bow", "goto", "head"), Nap("bow", 20),
       Cmd("bow", "goto", "head"), Nap("bow", 10) >>

WallSteps ==
    << Cmd("wall", "turn_on", "reachy"), Nap("wall", 20),
       Cmd("wall", "turn_on", "r_arm"), Cmd("wall", "turn_on", "l_arm"),
       Cmd("wall", "forward_kinematics", "r_arm"),
       Cmd("wall", "forward_kinematics", "l_arm") >>
    \o Rep(6, <<Cmd("wall", "goto", "r_arm"), Cmd("wall", "goto", "l_arm"),
                 Nap("wall", 10)>>)

(* _return_to_neutral: self.reachy.goto_posture('default') in a try *)
return_to_neutral(neutralOk) ==
    <<[Cmd("neutral", "goto_posture", "reachy") EXCEPT !.raised = ~neutralOk]>>

(* An act: its commands when its failAt-th SDK call raises, and its value *)
Act(steps, failAt) == [calls |-> TraceOf(steps, failAt), ok |-> failAt = 0]

(* while time.time() - start_time < duration - 10: the clock allows n turns;   *)
(* the turn whose sequence fails (failAt # 0, the last one) breaks the loop   *)
RECURSIVE PullLoop(_, _, _)
PullLoop(pull_count, n, failAt) ==
    IF pull_count = n THEN <<>>
    ELSE IF pull_count = n - 1 /\ failAt # 0
         THEN TraceOf(PullSteps(pull_count % 2 = 0), failAt)
         ELSE PullSteps(pull_count % 2 = 0) \o <<Nap("rope", 5)>>
              \o PullLoop(pull_count + 1, n, failAt)

(* The try block of perform_rope_pulling.  fault: an act other than the pull  *)
(* and the SDK call of it that raises; interrupted: KeyboardInterrupt in the  *)
(* sleep that follows the setup                                               *)
RopeBody(pulls, pullFail, fault, interrupted) ==
    LET at(act) == IF fault[1] = act THEN fault[2] ELSE 0
        setup == Act(SetupSteps, at("setup"))
        discover == Act(DiscoverSteps, at("discover"))
        finale == Act(FinaleSteps, at("finale"))
        bow == Act(BowSteps, at("bow"))
    IN  IF ~setup.ok THEN [calls |-> setup.calls, value |-> "False"]
        ELSE IF interrupted
        THEN [calls |-> setup.calls \o <<Cmd("rope", "KeyboardInterrupt", "-")>>,
              value |-> "interrupted"]
        ELSE IF ~discover.ok
        THEN [calls |-> setup.calls \o <<Nap("rope", 20)>> \o discover.calls,
              value |-> "False"]
        ELSE LET acts == setup.calls \o <<Nap("rope", 20)>> \o discover.calls
                         \o <<Nap("rope", 10)>> \o PullLoop(0, pulls, pullFail)
                         \o finale.calls
             IN  IF ~finale.ok THEN [calls |-> acts, value |-> "False"]
                 ELSE [calls |-> acts \o bow.calls, value |-> Bool(bow.ok)]

(* The finally clause letting the exception of _return_to_neutral out *)
FinallyUncaught(value, neutralOk) == IF neutralOk THEN value ELSE "raised"

(* finally: self._return_to_neutral(), which catches its exception: the      *)
(* performance ends the way its try block decided                            *)
Finally(value, neutralOk) == value

PerformRopePulling(pulls, pullFail, fault, interrupted, neutralOk) ==
    LET body == RopeBody(pulls, pullFail, fault, interrupted)
    IN  /\ pullFail # 0 => pulls > 0
        /\ pullFail \in 0..Cardinality(SdkCalls(PullSteps(TRUE)))
        /\ mime' = XCall("perform_rope_pulling", pulls, Finally(body.value, neutralOk),
                         body.calls \o return_to_neutral(neutralOk))

PerformInvisibleWall(failAt, neutralOk) ==
    /\ failAt \in 0..Cardinality(SdkCalls(WallSteps))
    /\ mime' = XCall("perform_invisible_wall", 0, Finally(Bool(failAt = 0), neutralOk),
                     TraceOf(WallSteps, failAt) \o return_to_neutral(neutralOk))

----------------------------------------------------------------------------
(* The mime performer driven by a free caller *)

(* The acts other than the pull with every SDK call of theirs *)
ActFaults ==
    {<<"-", 0>>}
    \cup {<<"setup", n>> : n \in 1..Cardinality(SdkCalls(SetupSteps))}
    \cup {<<"discover", n>> : n \in 1..Cardinality(SdkCalls(DiscoverSteps))}
    \cup {<<"finale", n>> : n \in 1..Cardinality(SdkCalls(FinaleSteps))}
    \cup {<<"bow", n>> : n \in 1..Cardinality(SdkCalls(BowSteps))}

InitMime == Init /\ robot = FullRobot

(* demo_mime_performance: the rope pulling is choice 1, and the second act of *)
(* the full show (choice 3) once the invisible wall returned True             *)
MimeRope ==
    /\ \/ mime.op = "-"
       \/ mime.op = "perform_invisible_wall" /\ mime.result = "True"
    /\ \E pulls \in 0..MaxPulls, pullFail \in 0..Cardinality(SdkCalls(PullSteps(TRUE))),
          fault \in ActFaults, interrupted, neutralOk \in BOOLEAN :
          PerformRopePulling(pulls, pullFail, fault, interrupted, neutralOk)
    /\ UNCHANGED <<ctlVars, scriptVars, audioVars, gazeboVars, rvizVars, mujoco, demo>>

(* The invisible wall is choice 2, and the first act of the full show *)
MimeWall ==
    /\ mime.op = "-"
    /\ \E failAt \in 0..Cardinality(SdkCalls(WallSteps)), neutralOk \in BOOLEAN :
          PerformInvisibleWall(failAt, neutralOk)
    /\ UNCHANGED <<ctlVars, scriptVars, audioVars, gazeboVars, rvizVars, mujoco, demo>>

NextMime == MimeRope \/ MimeWall

SpecMime == InitMime /\ [][NextMime]_vars

----------------------------------------------------------------------------
(* The recording operations on their own, over every name of up to          *)
(* MaxNameLen characters; the name typed in is drawn at the start           *)

MaxNameLen == 5

NameChars == {".", "o", "g", " "}

AllNames == UNION { [1..n -> NameChars] : n \in 0..MaxNameLen }

InitRecordName ==
    /\ CtlStart
    /\ ExtStart
    /\ robot = FullRobot
    /\ call = NoCall
    /\ script = "-"
    /\ pc = "-"
    /\ AudioStart
    /\ \E typed \in AllNames : acall = ACall("-", typed, FALSE, 0, "-", {})

RecordDrawn ==
    /\ acall.op = "-"
    /\ \E outcome \in Outcomes : RecordAudio(acall.filename, 5, TRUE, outcome, TRUE)
    /\ UNCHANGED <<ctlVars, scriptVars, extVars>>

DemoDrawn ==
    /\ acall.op = "-"
    /\ \E saved, play_back, download \in BOOLEAN, failAt \in FailPoints :
          DemoAudioRecording(acall.filename, 5, saved, play_back, download, failAt)
    /\ UNCHANGED <<ctlVars, scriptVars, extVars>>

SpecRecordName == InitRecordName /\ [][RecordDrawn \/ DemoDrawn]_vars

----------------------------------------------------------------------------
(* The claims about the joint-limit table *)

InTable(part, joint_name) ==
    part \in DOMAIN JOINT_LIMITS /\ joint_name \in DOMAIN JOINT_LIMITS[part]

WithinLimits(part, joint_name, position) ==
    /\ JOINT_LIMITS[part][joint_name][1] <= position
    /\ position <= JOINT_LIMITS[part][joint_name][2]

(* C1: for a part and a joint of JOINT_LIMITS, validate_joint_position returns *)
(* False for a position below min or above max and True for a position of     *)
(* [min, max], both bounds included.                                          *)
C1_ValidateListedJoint ==
    (call.op = "validate_joint_position" /\ InTable(call.part, call.joint)) =>
        IF WithinLimits(call.part, call.joint, call.position)
        THEN call.result = "True" ELSE call.result = "False"

(* A position on the upper bound of a listed joint was validated *)
C1_Witness ==
    /\ call.op = "validate_joint_position"
    /\ InTable(call.part, call.joint)
    /\ call.position = JOINT_LIMITS[call.part][call.joint][2]
    /\ call.result = "True"

(* C2: for a part that JOINT_LIMITS does not list, and for a joint that        *)
(* JOINT_LIMITS[part] does not list, validate_joint_position returns True for  *)
(* every position.                                                             *)
C2_ValidateUnlistedJoint ==
    (call.op = "validate_joint_position" /\ ~InTable(call.part, call.joint)) =>
        call.result = "True"

(* An unlisted joint of a listed part was validated at a position beyond every *)
(* range of the table                                                          *)
C2_Witness ==
    /\ call.op = "validate_joint_position"
    /\ call.part \in DOMAIN JOINT_LIMITS
    /\ call.joint \notin DOMAIN JOINT_LIMITS[call.part]
    /\ call.position > PI_MILLI
    /\ call.result = "True"

(* The goal positions an operation handed to the SDK *)
GoalWrites == {i \in 1..Len(trace) : trace[i].kind = "goal_position" /\ ~trace[i].raised}

(* C3: every goal position that move_joint, wave_hello or                      *)
(* move_to_neutral_position assigns to a joint of JOINT_LIMITS lies within     *)
(* the joint's [min, max].                                                     *)
C3_GoalsWithinLimits ==
    call.op \in {"move_joint", "wave_hello", "move_to_neutral_position"} =>
        \A i \in GoalWrites :
            InTable(trace[i].part, trace[i].joint) =>
                WithinLimits(trace[i].part, trace[i].joint, trace[i].args[1])

(* C4: whenever validate_joint_position returns False for (part, joint,        *)
(* position), move_joint returns False, leaves every goal_position unchanged   *)
(* and performs no sleep (nor any SDK call).                                   *)
C4_RejectedMoveTouchesNothing ==
    [][ ( /\ call'.op = "move_joint"
          /\ ~validate_joint_position(JOINT_LIMITS, call'.part, call'.joint,
                                      call'.position) )
        => ( /\ call'.result = "False"
             /\ goal' = goal
             /\ trace' = <<>> ) ]_vars

(* A connected controller refused a move of a joint the robot has, after some  *)
(* goal position had been written                                              *)
C4_Witness ==
    /\ call.op = "move_joint"
    /\ ~validate_joint_position(JOINT_LIMITS, call.part, call.joint, call.position)
    /\ ~NotConnected
    /\ HasPart(call.part)
    /\ call.joint \in robot[call.part]
    /\ goal # <<>>

(* C5: a move_joint call that passes validation and finds the part and the     *)
(* joint forwards the target position and the duration to the SDK, then blocks *)
(* for the duration and returns True.                                          *)
C5_MoveForwardsPositionAndDuration ==
    ( /\ call.op = "move_joint"
      /\ ~NotConnected
      /\ validate_joint_position(JOINT_LIMITS, call.part, call.joint, call.position)
      /\ HasPart(call.part)
      /\ call.joint \in robot[call.part]
      /\ \A i \in 1..Len(trace) : ~trace[i].raised )
    => ( /\ call.result = "True"
         /\ Len(trace) = 2
         /\ trace[1].kind = "goal_position"
         /\ trace[1].part = call.part
         /\ trace[1].joint = call.joint
         /\ trace[1].args = <<call.position, call.duration>>
         /\ trace[2] = Sleep(call.duration) )

(* C6: JOINT_LIMITS is never mutated: after any sequence of controller         *)
(* operations it equals its initial value.                                     *)
C6_LimitsNeverMutated == jointLimits = JOINT_LIMITS

(* A session was opened, a goal was written, the session was closed and a      *)
(* position outside of a listed range was validated                            *)
C6_Witness ==
    /\ closed # {}
    /\ goal # <<>>
    /\ call.op = "validate_joint_position"
    /\ call.result = "False"

----------------------------------------------------------------------------
(* The claims about the session *)

(* C9: when a script exits, every SDK handle that connect() created has had    *)
(* its disconnect called, also when the reachability check failed.             *)
C9_HandlesClosedAtExit == pc = "exited" => created \subseteq closed

(* C10: connect() never raises; it returns True exactly when the handle was    *)
(* constructed and its info read without error, and then connected is True;    *)
(* it returns False when the construction or the info read raises.             *)
C10_ConnectReturnsBoolean ==
    call.op = "connect" =>
        /\ call.result \in {"True", "False"}
        /\ call.result = "True" <=>
              ( /\ Len(trace) = 3
                /\ trace[1].kind = "ReachySDK" /\ ~trace[1].raised
                /\ trace[3].kind = "info" /\ ~trace[3].raised )
        /\ call.result = "True" => connected
        /\ (\E i \in 1..Len(trace) : trace[i].raised) => call.result = "False"

(* The handle was constructed and the read of its info raised *)
C10_Witness ==
    /\ call.op = "connect"
    /\ Len(trace) = 3
    /\ trace[3].kind = "info"
    /\ trace[3].raised
    /\ call.result = "False"

----------------------------------------------------------------------------
(* The claims about the audio files *)

(* The names handed to the SDK's record call by the last operation *)
RecordedNames ==
    {atrace[i].name : i \in {n \in 1..Len(atrace) : atrace[n].kind = "record_audio"}}

(* The name is the given one when that ends with .ogg, and else the given one *)
(* with .ogg appended once; normalising it again changes nothing              *)
Normalised(given, name) ==
    /\ EndsWith(name, OGG)
    /\ EndsWith(given, OGG) => name = given
    /\ ~EndsWith(given, OGG) => name = given \o OGG
    /\ RecordFileName(name) = name

(* C7 as stated: for every filename given to record_audio and to the         *)
(* recording demo, the name passed to the SDK record call ends with .ogg, is  *)
(* the input when the input ends with .ogg and the input with .ogg appended   *)
(* once otherwise, and normalising twice equals normalising once.             *)
C7_RecordNameOfInput ==
    acall.op \in {"record_audio", "demo_audio_recording"} =>
        \A name \in RecordedNames : Normalised(acall.filename, name)

(* The name the recording demo works with: the text typed in, stripped, and  *)
(* my_voice.ogg when nothing is left                                          *)
DemoGiven(typed) == IF Strip(typed) = <<>> THEN MY_VOICE ELSE Strip(typed)

(* C7 amended: as stated for record_audio; for the recording demo it holds of *)
(* the typed text stripped of surrounding whitespace, with my_voice.ogg       *)
(* standing in for an empty text.                                             *)
C7_RecordNameNormalised ==
    /\ acall.op = "record_audio" =>
          \A name \in RecordedNames : Normalised(acall.filename, name)
    /\ acall.op = "demo_audio_recording" =>
          \A name \in RecordedNames : Normalised(DemoGiven(acall.filename), name)

(* A name that already ended with .ogg was recorded under by record_audio *)
C7_Witness ==
    /\ acall.op = "record_audio"
    /\ EndsWith(acall.filename, OGG)
    /\ Len(acall.filename) > Len(OGG)
    /\ RecordedNames = {acall.filename}

AudioFileOps == {"play_audio_file", "download_audio_file", "remove_audio_file"}

(* C8: play_audio_file, download_audio_file and remove_audio_file call the    *)
(* SDK operation only if the filename is in the list the SDK returned at that *)
(* call; otherwise they return False and leave the robot's storage and        *)
(* playback unchanged.                                                        *)
C8_AbsentFileNotTouched ==
    [][ (acall'.op \in AudioFileOps /\ acall'.filename \notin acall'.listed)
        => ( /\ acall'.result = "False"
             /\ \A i \in 1..Len(atrace') : atrace'[i].kind = "get_audio_files"
             /\ files' = files
             /\ playing' = playing
             /\ localFiles' = localFiles ) ]_vars

(* A file that exists was asked for while the SDK's list could not be read,   *)
(* with another file playing                                                  *)
C8_Witness ==
    /\ acall.op \in AudioFileOps
    /\ acall.filename \in files
    /\ acall.filename \notin acall.listed
    /\ playing # {}
    /\ acall.result = "False"

----------------------------------------------------------------------------
(* The claims about exceptions of the SDK *)

MotionOps == {"perform_intro_setup", "reset_to_down_position", "move_joint",
              "move_to_neutral_position", "wave_hello"}

AudioOps == {"upload_audio_file", "play_audio_file", "stop_playback", "record_audio",
             "stop_recording", "download_audio_file", "remove_audio_file"}

----------------------------------------------------------------------------
(* The claims about the Gazebo scene manager *)

(* C12: every docker exec call of GazeboSceneManager is given a timeout, so   *)
(* that _spawn_object_in_gazebo and _remove_object_from_gazebo return True or *)
(* False also when the container never responds to a call (the file write,   *)
(* the script write or the script run).                                      *)
C12_DockerCallsTimeOut ==
    gzCall.op \in {"_spawn_object_in_gazebo", "_remove_object_from_gazebo"} =>
        /\ \A i \in 1..Len(gzCall.calls) : gzCall.calls[i].timeout # <<>>
        /\ gzCall.result \in {"True", "False"}

CreateOps == {"create_table_scene", "create_fruits_scene", "create_kitchen_scene"}

(* The objects a sequence of docker calls spawned or removed: those whose    *)
(* script ran and reported success                                           *)
Done(calls) ==
    {calls[i].obj : i \in {n \in 1..Len(calls) :
                              calls[n].kind = "run_script" /\ calls[n].reply = "zero"}}

(* C16: create_table_scene, create_fruits_scene and create_kitchen_scene      *)
(* return True if and only if every object of the scene's object list was    *)
(* spawned in the simulator.                                                 *)
C16_CreateTrueIffAllSpawned ==
    gzCall.op \in CreateOps =>
        ( gzCall.result = "True" <=>
              Range(SceneObjects(gzCall.arg)) \subseteq Done(gzCall.calls) )

(* C17: whenever clear_scene returns True, every object the manager had       *)
(* spawned and was tracking has been removed from the simulator.             *)
C17_ClearRemovesTracked ==
    [][ (gzCall'.op = "clear_scene" /\ gzCall'.result = "True")
        => Range(gzSpawned) \cap gzWorld' = {} ]_vars

----------------------------------------------------------------------------
(* The claims about the connection test *)

(* The connection attempts of the test so far, those that failed, and the    *)
(* waits of the retry delay                                                  *)
Attempts == {i \in 1..Len(mujoco.calls) : mujoco.calls[i].kind = "ReachySDK"}

FailedAttempts == Raised(mujoco.calls)

RetryDelays == {i \in 1..Len(mujoco.calls) : mujoco.calls[i] = Sleep(100)}

(* C13: test_mujoco_connection makes at most 5 connection attempts, returns   *)
(* True at the first attempt that succeeds without making a further attempt, *)
(* returns False after the 5th failed attempt, and waits the retry delay     *)
(* after every failed attempt except the last (the 5th).                     *)
C13_RetryLoop ==
    mujoco.op = "test_mujoco_connection" =>
        /\ Cardinality(Attempts) <= 5
        /\ mujoco.result = "True" <=>
              Cardinality(Attempts) = Cardinality(FailedAttempts) + 1
        /\ mujoco.result = "True" =>
              \A i \in FailedAttempts : \E a \in Attempts : a > i
        /\ mujoco.result = "False" <=> Cardinality(FailedAttempts) = 5
        /\ mujoco.result = "running" =>
              Cardinality(Attempts) = Cardinality(FailedAttempts)
        /\ \A i \in FailedAttempts :
              IF Cardinality({m \in FailedAttempts : m <= i}) < 5
              THEN i + 1 \in RetryDelays
              ELSE i = Len(mujoco.calls)
        /\ \A i \in RetryDelays : i - 1 \in FailedAttempts

(* The fifth attempt succeeded after four failures and four waits *)
C13_Witness ==
    /\ mujoco.op = "test_mujoco_connection"
    /\ mujoco.result = "True"
    /\ Cardinality(FailedAttempts) = 4
    /\ Cardinality(RetryDelays) = 4

----------------------------------------------------------------------------
(* The claims about the mime performances *)

MimeOps == {"perform_rope_pulling", "perform_invisible_wall"}

(* The calls of _return_to_neutral in the last performance *)
NeutralCalls == {i \in 1..Len(mime.calls) : mime.calls[i].act = "neutral"}

(* The commands of the acts that raised, the pull sequences apart *)
ActFailures ==
    {i \in Raised(mime.calls) : mime.calls[i].act \notin {"pull", "neutral"}}

(* C14: on every exit of perform_rope_pulling and of perform_invisible_wall   *)
(* (success, an act returning False, or an exception) _return_to_neutral is   *)
(* invoked exactly once, after the last command of the acts, and a failure    *)
(* inside it does not change the value returned: the one the acts decided.    *)
C14_NeutralOnceAfterActs ==
    mime.op \in MimeOps =>
        /\ NeutralCalls = {Len(mime.calls)}
        /\ mime.result =
              IF \E i \in 1..Len(mime.calls) : mime.calls[i].kind = "KeyboardInterrupt"
              THEN "interrupted"
              ELSE IF ActFailures # {} THEN "False" ELSE "True"

(* A rope performance whose finale failed after a pull, and whose return to  *)
(* neutral raised as well                                                    *)
C14_Witness ==
    /\ mime.op = "perform_rope_pulling"
    /\ mime.arg > 0
    /\ mime.result = "False"
    /\ \E i \in ActFailures : mime.calls[i].act = "finale"
    /\ mime.calls[Len(mime.calls)].raised

(* C15: perform_rope_pulling returns True only if the setup, the rope         *)
(* discovery, every attempted rope-pull sequence, the finale and the bow each *)
(* returned True.                                                            *)
C15_RopeTrueOnlyIfAllActsTrue ==
    (mime.op = "perform_rope_pulling" /\ mime.result = "True") =>
        \A i \in Raised(mime.calls) : mime.calls[i].act = "neutral"

----------------------------------------------------------------------------
(* The claims about the RViz scene manager *)

RvCreateOps ==
    {"create_fruits_scene", "create_table_scene", "create_base_scene",
     "create_kitchen_scene"}

(* C18: after RVizSceneManager.clear_scene, get_current_scene() is None, the  *)
(* marker publisher's marker count is 0 and the next marker id is 0.          *)
C18_ClearResetsScene ==
    rvCall.op = "clear_scene" =>
        /\ get_current_scene = "None"
        /\ get_marker_count = 0
        /\ rvMarkerId = 0
        /\ \A obj \in Range(RV_FRUITS_SCENE) :
              obj.type \in MARKER_TYPES => create_marker(obj, rvMarkerId).id = 0

(* A clear_scene that found markers of more than one scene *)
C18_Witness ==
    /\ rvCall.op = "clear_scene"
    /\ rvCall.arg > Len(RV_FRUITS_SCENE)
    /\ rvHasRos

(* C19: after an RVizSceneManager.create_*_scene call succeeds,               *)
(* get_marker_count() is the number of box, sphere and cylinder objects of    *)
(* the current scene, also when other scenes were created before it without  *)
(* a clear_scene in between.  Stated where ROS 2 is available: without it    *)
(* publish_scene_markers makes no marker at all.                              *)
C19_MarkerCountOfCurrentScene ==
    (rvHasRos /\ rvCall.op \in RvCreateOps /\ rvCall.result = "True") =>
        get_marker_count =
            Cardinality({i \in 1..Len(RvSceneObjects(get_current_scene)) :
                           RvSceneObjects(get_current_scene)[i].type \in MARKER_TYPES})

----------------------------------------------------------------------------
(* The claim about waiting for the end of a playback *)

(* C20: play_audio_file(filename, wait_for_completion=True), once the         *)
(* playback has finished, eventually returns True without the user            *)
(* interrupting it.                                                          *)
C20_WaitReturnsAfterPlayback ==
    (acall.op = "play_audio_file" /\ apc # "idle" /\ playing = {})
        ~> (apc = "idle" /\ acall.result = "True")

----------------------------------------------------------------------------
(* The claims about the session and the intro sequence *)

(* The commands of the last operation by what they are *)
LookDowns == {i \in 1..Len(trace) : trace[i].kind = "look_at" /\ trace[i].args[3] < 0}

LookUps == {i \in 1..Len(trace) : trace[i].kind = "look_at" /\ trace[i].args[3] > 0}

FullTurnOns ==
    {i \in 1..Len(trace) : trace[i].kind = "turn_on" /\ trace[i].part = "reachy"}

AntennaMoves == {i \in 1..Len(trace) : trace[i].kind = "goto"}

(* C22: perform_intro_setup runs head down -> turn on -> head up: the head    *)
(* look-down command is issued before the full-robot turn_on, the look-up     *)
(* command after it, and the antenna moves last; if a step raises, the method *)
(* returns False and no later step of the sequence is issued.                 *)
C22_IntroOrder ==
    call.op = "perform_intro_setup" =>
        /\ \A o \in FullTurnOns : \E d \in LookDowns : d < o
        /\ \A u \in LookUps : \E o \in FullTurnOns : o < u
        /\ \A d \in LookDowns : \A o \in FullTurnOns : d < o
        /\ \A a \in AntennaMoves :
              /\ \E u \in LookUps : u < a
              /\ \A i \in SdkCalls(trace) : i > a => i \in AntennaMoves
        /\ \A i \in Raised(trace) : i = Len(trace) /\ call.result = "False"
        /\ call.result = "True" =>
              /\ Cardinality(LookDowns) = 1 /\ Cardinality(FullTurnOns) = 1
              /\ Cardinality(LookUps) = 1 /\ Cardinality(AntennaMoves) = 4

(* An intro whose full-robot turn_on raised after the head had looked down *)
C22_Witness ==
    /\ call.op = "perform_intro_setup"
    /\ call.result = "False"
    /\ LookDowns # {}
    /\ FullTurnOns = {Len(trace)}
    /\ trace[Len(trace)].raised

QueryOps == {"get_robot_info", "read_joint_positions"}

(* The controller is not connected as far as its caller knows: it has made no *)
(* call yet, its last call was a connect that returned False, or a disconnect *)
CallerNotConnected ==
    \/ call = NoCall
    \/ call.op = "connect" /\ call.result = "False"
    \/ call.op = "disconnect"

(* C23: while the controller is not connected (before any connect, after a    *)
(* connect that returned False, or after disconnect), perform_intro_setup,    *)
(* reset_to_down_position, move_joint, move_to_neutral_position and           *)
(* wave_hello return False, and get_robot_info and read_joint_positions       *)
(* return an error dictionary, none of them making any SDK call.  Stated of   *)
(* the operation that follows the connect, the disconnect or the              *)
(* construction.                                                              *)
C23_NotConnectedOpsRefuse ==
    [][(CallerNotConnected /\ call'.op \in MotionOps \cup QueryOps) =>
          /\ trace' = <<>>
          /\ call'.op \in MotionOps => call'.result = "False"
          /\ call'.op \in QueryOps => call'.result = "error"]_vars

(* C24: whenever connect() returns False the connected flag is False          *)
(* afterwards, also when a controller that was already connected calls        *)
(* connect() again and the reachability check of the new handle fails; the    *)
(* flag equals the result of the most recent connect() until disconnect.      *)
C24_FlagIsLastConnectResult ==
    call.op = "connect" => (connected <=> call.result = "True")

----------------------------------------------------------------------------
(* The claims about the interactive demo *)

(* The demo has left main() *)
DemoLeft == script = "interactive_demo" /\ pc \in {"exited", "raised"}

(* C21: on every exit path of the interactive demo that follows a successful  *)
(* connect (choice 18, Ctrl+C at the prompt, or an error), the robot is       *)
(* turned off smoothly before disconnecting, and the SDK session is always    *)
(* disconnected, also when the turn-off call itself fails.  The connect of    *)
(* the demo had succeeded when the flag is still set or the handle is closed. *)
C21_DemoExitDisconnects ==
    (DemoLeft /\ (connected \/ reachy \in closed)) =>
        /\ reachy \in closed
        /\ ~connected
        /\ \E i, j \in 1..Len(trace) :
              /\ i < j
              /\ trace[i].kind = "turn_off_smoothly"
              /\ trace[j].kind = "disconnect"

(* C25: for each part the 'Move specific joint' menu offers (r_arm, l_arm,    *)
(* head), when read_joint_positions succeeds for that part,                   *)
(* move_specific_joint reaches the joint prompt and, for a valid joint name   *)
(* and numeric inputs, calls move_joint with that part and joint; it reports  *)
(* 'Failed to read joints' only when the read failed.                         *)
C25_MoveSpecificJointReachesPrompt ==
    (/\ demo.op = "move_specific_joint"
     /\ demo.arg[1] \in MENU_PARTS
     /\ Raised(trace) = {}
     /\ trace # <<>>) =>
        /\ demo.result \in {"Invalid joint name", "Invalid numeric input",
                             "[SUCCESS] Movement completed", "[FAILED] Movement failed"}
        /\ demo.result \in {"[SUCCESS] Movement completed", "[FAILED] Movement failed"} =>
              /\ call.op = "move_joint"
              /\ <<call.part, call.joint>> = demo.arg

----------------------------------------------------------------------------
(* The claims about the list of spawned objects and the order of a spawn *)

(* The names of the objects whose spawn script ran and reported success, in   *)
(* the order of the docker calls                                              *)
SpawnedBy(calls) ==
    LET runs == SelectSeq(calls, LAMBDA c : c.kind = "run_script" /\ c.reply = "zero")
    IN  [i \in 1..Len(runs) |-> runs[i].obj]

(* C26: after any sequence of create_*_scene and clear_scene calls,           *)
(* spawned_objects (what get_spawned_objects returns) is exactly the          *)
(* sequence, in spawn order, of the names of the objects whose spawn reported *)
(* success since the last clear_scene, and it is empty right after            *)
(* clear_scene: it is empty at first, every create appends the names of its   *)
(* successful spawns in order, and every clear that returns empties it.       *)
C26_SpawnedSinceLastClear ==
    /\ gzCall = NoXCall => gzSpawned = <<>>
    /\ [][/\ gzCall'.op \in CreateOps =>
                gzSpawned' = gzSpawned \o SpawnedBy(gzCall'.calls)
          /\ (gzCall'.op = "clear_scene" /\ gzCall'.result # "blocked") =>
                gzSpawned' = <<>>]_vars

(* A scene of which one object failed, created after another scene without a *)
(* clear in between                                                          *)
C26_Witness ==
    /\ gzCall.op \in CreateOps
    /\ gzCall.result = "True"
    /\ SpawnedBy(gzCall.calls) # <<>>
    /\ Len(gzSpawned) > Len(SpawnedBy(gzCall.calls))
    /\ \E i \in 1..Len(gzCall.calls) : gzCall.calls[i].reply # "zero"

(* C27: a create_*_scene call that returns False leaves the manager's state   *)
(* unchanged: current_scene and spawned_objects are the same after the call   *)
(* as before it.                                                              *)
C27_FailedCreateChangesNothing ==
    [][(gzCall'.op \in CreateOps /\ gzCall'.result = "False") =>
          /\ gzScene' = gzScene
          /\ gzSpawned' = gzSpawned]_vars

SPAWN_ORDER == <<"write_sdf", "write_script", "run_script">>

(* C28: _spawn_object_in_gazebo follows a fixed order and reports success     *)
(* only at its end: it returns True only if the SDF file write exited with 0, *)
(* then the spawn script write exited with 0, then the script run exited with *)
(* 0 with 'Spawn result: True' in its output; the spawn script is never run   *)
(* when either write failed, and a timeout of the run yields False.           *)
C28_SpawnOrder ==
    gzCall.op = "_spawn_object_in_gazebo" =>
        LET calls == gzCall.calls
        IN  /\ Len(calls) \in 1..Len(SPAWN_ORDER)
            /\ \A i \in 1..Len(calls) :
                  /\ calls[i].kind = SPAWN_ORDER[i]
                  /\ i < Len(calls) => calls[i].reply = "zero"
            /\ gzCall.result = "True" =>
                  /\ Len(calls) = Len(SPAWN_ORDER)
                  /\ \A i \in 1..Len(calls) : calls[i].reply = "zero"
            /\ \A i \in 1..Len(calls) :
                  (calls[i].kind = "run_script" /\ calls[i].reply = "silent") =>
                      gzCall.result = "False"

(* A spawn whose script was written and whose run timed out *)
C28_Witness ==
    /\ gzCall.op = "_spawn_object_in_gazebo"
    /\ Len(gzCall.calls) = Len(SPAWN_ORDER)
    /\ gzCall.calls[Len(SPAWN_ORDER)].reply = "silent"
    /\ gzCall.result = "False"

(* The self-test at work called op of the audio manager and got result *)
TestGot(op, result) ==
    \E i \in 1..Len(demo.calls) : demo.calls[i] = <<op, result>>

(* C29: when _menu_test_audio or test_audio_basic has returned and its       *)
(* recording step had succeeded, the file it recorded is no longer among the *)
(* files of the robot, whether its playback step succeeded or not            *)
C29_SelfTestRemovesItsFile ==
    (/\ demo.op \in {"_menu_test_audio", "test_audio_basic"}
     /\ demo.arg = "returned"
     /\ TestGot("record_audio", "True"))
    => TestFile(demo.op) \notin files

====
